---- MODULE Spec2Model ----
(***************************************************************************)
(* One scrape of one collector of the scaleway exporter: the database,     *)
(* load-balancer, redis and bucket collectors (Collect and the per-        *)
(* resource fetchers they launch), the shared error CounterVec, the        *)
(* WaitGroups and the metric sink; and the sample reduction (sort.Slice    *)
(* by timestamp, take the last point) as a pure function. main, which      *)
(* reads the configuration and registers the collectors, and the billing   *)
(* collector have a specification of their own.                            *)
(*                                                                         *)
(* Gauge values are symbolic integers; the 'up' gauge is counted in        *)
(* halves (2 = 1.0, 1 = 0.5, 0 = 0.0).                                     *)
(***************************************************************************)
EXTENDS Integers, Sequences, FiniteSets, Bags, TLC

VARIABLES
    family,      \* which collector this scrape runs
    zones,       \* c.regions / c.zones: the configured partition list
    inventory,   \* upstream: answer of the inventory call of each partition
    collectPc,   \* position of Collect
    zi,          \* index in zones of the partition Collect is at
    li,          \* index of the next resource of the response to launch
    defers,      \* Collect's stack of deferred wg.Wait() calls (WaitGroup ids)
    queried,     \* partitions whose inventory call has been issued
    wg,          \* Collect's WaitGroups: id -> counter
    bwg,         \* FetchMetricsForBucket's WaitGroup of each bucket
    taskPc,      \* position of each per-resource goroutine
    taskResp,    \* the metrics response each goroutine received
    taskIdx,     \* index of the series the goroutine's loop is at
    bucketPc,    \* position of each FetchMetricsForBucket goroutine
    errors,      \* the CounterVec scaleway_errors_total: label -> value
    sink,        \* bag of the metrics sent on ch
    panicked,    \* the goroutine that panicked, if any: the process is gone
    input,       \* reducer: the points of a series as returned upstream
    points,      \* reducer: timeseries.Points (sorted in place)
    rpc,         \* reducer: position
    rvalue,      \* reducer: the value taken
    expired,     \* the deadline of the context Collect created has passed
    run,         \* which Collect run of the process this is
    built,       \* how many times the collector was constructed
    firstSink,   \* what the previous Collect run sent on its channel
    firstResp,   \* what the metrics calls of the previous run were answered
    cfg,         \* main: the Config read from the environment and the flags
    mainPc,      \* main: position
    partitions,  \* main: its locals regions and zones
    client,      \* main: the scw.Client (its default region)
    registry,    \* the registered collectors, each with the list it was built with
    ledger,      \* upstream of the billing collector: projects, consumption report
    logged       \* the levels the billing collector has logged at

vars == <<family, zones, inventory, collectPc, zi, li, defers, queried, wg, bwg,
          taskPc, taskResp, taskIdx, bucketPc, errors, sink, panicked,
          input, points, rpc, rvalue, expired, run, built, firstSink, firstResp,
          cfg, mainPc, partitions, client, registry, ledger, logged>>

collectorVars == <<family, zones, inventory, collectPc, zi, li, defers, queried,
                   wg, bwg, taskPc, taskResp, taskIdx, bucketPc, errors, sink,
                   panicked>>

reducerVars == <<input, points, rpc, rvalue>>

runVars == <<expired, run, built, firstSink, firstResp>>

exporterVars == <<cfg, mainPc, partitions, client, registry, ledger, logged>>

-----------------------------------------------------------------------------
(* Bounds *)

MaxParts == 2      \* partitions in the configured list
MaxRes == 1        \* resources an inventory call returns
MaxSeries == 2     \* series a metrics call returns
MaxPts == 3        \* points of a series (reducer)
MaxTs == 3         \* distinct timestamps (reducer)
MaxVal == 2        \* distinct point values (reducer)
MaxMore == 1       \* resources on the pages after the first one
MaxRuns == 2       \* consecutive Collect runs
MaxProjects == 2   \* projects of the organization
MaxConsumptions == 2  \* lines of the consumption report

-----------------------------------------------------------------------------
(* Sample reduction: sort.Slice(points, Before) then points[len-1].Value *)

Point == [ts : 1..MaxTs, v : 1..MaxVal]

\* the less function handed to sort.Slice
BeforeDesc(a, b) == a.ts > b.ts
Before(a, b) == a.ts < b.ts

Swap(s, i, j) == [s EXCEPT ![i] = s[j], ![j] = s[i]]

\* inner loop of the insertion sort: sink s[j] while it is less than s[j-1]
RECURSIVE SinkDown(_, _)
SinkDown(s, j) ==
    IF j > 1 /\ Before(s[j], s[j - 1])
    THEN SinkDown(Swap(s, j, j - 1), j - 1)
    ELSE s

RECURSIVE InsertFrom(_, _)
InsertFrom(s, i) ==
    IF i > Len(s) THEN s ELSE InsertFrom(SinkDown(s, i), i + 1)

\* sort.Slice on a short slice is an insertion sort
SortPoints(s) == InsertFrom(s, 2)

\* value := float64(timeseries.Points[len(timeseries.Points)-1].Value)
LatestValue(s) == SortPoints(s)[Len(s)].v

\* the longest slice sort.Slice hands to its insertion sort
maxInsertion == 12

\* the points of s that no point of s is later than
Newest(s) == {k \in 1..Len(s) : \A j \in 1..Len(s) : ~Before(s[k], s[j])}

\* s with its k-th point taken out and put at the end
MoveLast(s, k) ==
    [i \in 1..Len(s) |-> IF i < k THEN s[i]
                          ELSE IF i < Len(s) THEN s[i + 1] ELSE s[k]]

\* sort.Slice(points, Before): up to maxInsertion elements it is the
\* insertion sort; on a longer slice the order it leaves equal elements in
\* is unspecified ("not guaranteed to be stable"), so any of the newest
\* points may end last. The outcomes are told apart by their last element.
SliceOrders(s) ==
    IF Len(s) <= maxInsertion
    THEN {SortPoints(s)}
    ELSE {SortPoints(MoveLast(s, k)) : k \in Newest(s)}

-----------------------------------------------------------------------------
(* Families, resources, upstream answers *)

Families == {"database", "loadbalancer", "redis", "bucket"}
Zoned == {"database", "loadbalancer", "redis"}

Parts == 1..MaxParts

\* the goroutines that call a metrics endpoint: <<partition, index, metric>>
MetricNames == {"metrics", "object_count", "bytes_sent", "storage_usage"}
BucketMetrics == {"object_count", "bytes_sent", "storage_usage"}
ResIdx == 1..(MaxRes + MaxMore)
Tasks == Parts \X ResIdx \X MetricNames
Buckets == Parts \X ResIdx

SeqUpTo(S, n) == UNION {[1..k -> S] : k \in 0..n}

\* the status values the inventory answers of the model carry
StatusSample(fam) ==
    CASE fam = "database" -> {"ready", "autohealing"}
      [] fam = "loadbalancer" -> {"ready", "error"}
      [] fam = "redis" -> {"ready"}
      [] OTHER -> {"private"}

InventoryKinds(fam) ==
    CASE fam = "database" -> {"ok", "err"}
      [] fam = "bucket" -> {"ok", "err", "infoerr"}
      [] OTHER -> {"ok", "err", "e501"}

\* an answer of the inventory endpoint: res is the first page, more is what
\* the later pages hold
InventoryAnswers(fam) ==
    {[kind |-> k, res |-> <<>>, more |-> <<>>] : k \in InventoryKinds(fam) \ {"ok"}}
    \cup {[kind |-> "ok", res |-> r, more |-> <<>>] :
              r \in SeqUpTo(StatusSample(fam), MaxRes)}

\* the answers of an endpoint whose list spans several pages: the first page
\* is full
PagedAnswers(fam) ==
    InventoryAnswers(fam)
    \cup (IF fam \in Zoned
          THEN {[kind |-> "ok", res |-> r, more |-> m] :
                   r \in [1..MaxRes -> {"ready"}], m \in [1..MaxMore -> {"ready"}]}
          ELSE {})

\* the status enums of the SDK (rdb.InstanceStatus, lb.LBStatus) and a value
\* the SDK does not declare
StatusEnum(fam) ==
    CASE fam = "database" ->
           {"unknown", "ready", "provisioning", "configuring", "deleting", "error",
            "autohealing", "locked", "initializing", "disk_full", "backuping",
            "snapshotting", "restarting", "undeclared"}
      [] fam = "loadbalancer" ->
           {"unknown", "ready", "pending", "stopped", "error", "locked",
            "migrating", "to_create", "creating", "to_delete", "deleting",
            "undeclared"}
      [] OTHER -> StatusSample(fam)

\* the answers with one resource of every status
EnumAnswers(fam) ==
    InventoryAnswers(fam)
    \cup {[kind |-> "ok", res |-> <<st>>, more |-> <<>>] : st \in StatusEnum(fam)}

\* scw.WithAllPages(): the SDK follows the pages and returns the whole list
AllPages(fam) == fam \in {"database", "loadbalancer"}

\* response.Instances / response.LBs / clusterList.Clusters
Listed(fam, a) == IF AllPages(fam) THEN a.res \o a.more ELSE a.res

\* an unsorted series with two points: the latest point comes first
GoodPoints == <<[ts |-> 2, v |-> 1], [ts |-> 1, v |-> 2]>>

MappedName(fam) ==
    CASE fam = "database" -> "cpu_usage_percent"
      [] fam = "loadbalancer" -> "node_network_receive_bits_sec"
      [] fam = "redis" -> "cpu_usage_percent"
      [] OTHER -> "bucket_series"

\* the series a metrics answer of the model is made of
SeriesSample(fam, m) ==
    CASE fam \in Zoned ->
           {[name |-> MappedName(fam), meta |-> "node-1", points |-> GoodPoints],
            [name |-> MappedName(fam), meta |-> "node-1", points |-> <<>>],
            [name |-> "new_upstream_metric", meta |-> "node-1", points |-> GoodPoints]}
      [] m = "storage_usage" ->
           {[name |-> "storage_usage", meta |-> "STANDARD", points |-> GoodPoints],
            [name |-> "storage_usage", meta |-> "ONEZONE_IA", points |-> GoodPoints],
            [name |-> "storage_usage", meta |-> "STANDARD", points |-> <<>>]}
      [] OTHER ->
           {[name |-> m, meta |-> "", points |-> GoodPoints],
            [name |-> m, meta |-> "", points |-> <<>>]}

NoResp == [kind |-> "none", series |-> <<>>]
ErrResp == [kind |-> "err", series |-> <<>>]
OkResponses(fam, m) ==
    {[kind |-> "ok", series |-> s] : s \in SeqUpTo(SeriesSample(fam, m), MaxSeries)}

-----------------------------------------------------------------------------
(* Descriptors, labels, observations *)

NoDesc == "nil"

\* Describe: the descriptors a collector announces
Describe(fam) ==
    CASE fam = "database" ->
           {"scaleway_database_up", "scaleway_database_cpu_usage_percent",
            "scaleway_database_memory_usage_percent",
            "scaleway_database_total_connections",
            "scaleway_database_disk_usage_percent"}
      [] fam = "loadbalancer" ->
           {"scaleway_loadbalancer_up",
            "scaleway_loadbalancer_network_receive_bits_sec",
            "scaleway_loadbalancer_network_transmit_bits_sec",
            "scaleway_loadbalancer_total_connections",
            "scaleway_loadbalancer_new_connection_rate_sec"}
      [] fam = "redis" ->
           {"scaleway_redis_cpu_usage_percent",
            "scaleway_redis_memory_usage_percent",
            "scaleway_redis_db_memory_usage_percent"}
      [] fam = "billing" -> {"scaleway_billing_consumptions"}
      [] OTHER ->
           {"scaleway_s3_object_total", "scaleway_s3_bandwidth_bytes",
            "scaleway_s3_storage_usage_standard_bytes",
            "scaleway_s3_storage_usage_glacier_bytes"}

UpDesc(fam) ==
    IF fam = "database" THEN "scaleway_database_up" ELSE "scaleway_loadbalancer_up"

\* the switch on timeseries.Name of the three zoned collectors
DescOf(fam, name) ==
    CASE fam = "database" /\ name = "cpu_usage_percent" -> "scaleway_database_cpu_usage_percent"
      [] fam = "database" /\ name = "mem_usage_percent" -> "scaleway_database_memory_usage_percent"
      [] fam = "database" /\ name = "total_connections" -> "scaleway_database_total_connections"
      [] fam = "database" /\ name = "disk_usage_percent" -> "scaleway_database_disk_usage_percent"
      [] fam = "loadbalancer" /\ name = "node_network_receive_bits_sec" -> "scaleway_loadbalancer_network_receive_bits_sec"
      [] fam = "loadbalancer" /\ name = "node_network_transmit_bits_sec" -> "scaleway_loadbalancer_network_transmit_bits_sec"
      [] fam = "loadbalancer" /\ name = "current_connection_rate_sec" -> "scaleway_loadbalancer_total_connections"
      [] fam = "loadbalancer" /\ name = "current_new_connection_rate_sec" -> "scaleway_loadbalancer_new_connection_rate_sec"
      [] fam = "redis" /\ name = "cpu_usage_percent" -> "scaleway_redis_cpu_usage_percent"
      [] fam = "redis" /\ name = "mem_usage_percent" -> "scaleway_redis_memory_usage_percent"
      [] fam = "redis" /\ name = "db_memory_usage_percent" -> "scaleway_redis_db_memory_usage_percent"
      [] OTHER -> NoDesc

\* options.Desc of the two HandleSimpleMetric goroutines
SimpleDesc(m) ==
    IF m = "object_count" THEN "scaleway_s3_object_total" ELSE "scaleway_s3_bandwidth_bytes"

\* options.DescMatrix[timeseries.Metadata["type"]]: nil for a missing key
DescMatrix(type) ==
    CASE type = "STANDARD" -> "scaleway_s3_storage_usage_standard_bytes"
      [] type = "GLACIER" -> "scaleway_s3_storage_usage_glacier_bytes"
      [] OTHER -> NoDesc

\* len(options.DescMatrix)
DescMatrixLen == 2

\* the statuses the switch has a case for
UpCases(fam) ==
    IF fam = "database"
    THEN {"ready", "backuping", "autohealing"}
    ELSE {"ready", "deleting", "creating", "migrating", "to_delete", "error",
          "unknown", "locked", "pending", "stopped", "to_create"}

\* the switch on the resource status; the gauge is counted in halves
UpValueBinary(fam, status) == IF status = "ready" THEN 2 ELSE 0
UpValueNoBackup(fam, status) ==
    CASE fam = "database" /\ status = "ready" -> 2
      [] fam = "database" /\ status = "autohealing" -> 1
      [] fam = "loadbalancer" /\ status = "ready" -> 2
      [] fam = "loadbalancer" /\ status \in {"deleting", "creating", "migrating", "to_delete"} -> 1
      [] OTHER -> 0
UpValue(fam, status) ==
    CASE fam = "database" /\ status \in {"ready", "backuping"} -> 2
      [] fam = "database" /\ status = "autohealing" -> 1
      [] fam = "loadbalancer" /\ status = "ready" -> 2
      [] fam = "loadbalancer" /\ status \in {"deleting", "creating", "migrating", "to_delete"} -> 1
      [] OTHER -> 0

\* the variable labels each descriptor is declared with (prometheus.NewDesc)
Schema(d) ==
    CASE d = "scaleway_database_up" -> <<"id", "name", "region", "engine", "type">>
      [] d \in Describe("database") \ {"scaleway_database_up"} -> <<"id", "name", "node">>
      [] d \in Describe("loadbalancer") -> <<"id", "name", "zone", "type">>
      [] d \in Describe("redis") -> <<"id", "name", "node">>
      [] OTHER -> <<"name", "region", "public">>

\* a label value: the field it is read from and the resource (or node) it
\* belongs to
LabelsUpSwapped(fam, t) ==
    IF fam = "database"
    THEN <<<<"name", t[1], t[2]>>, <<"id", t[1], t[2]>>, <<"region", t[1], 0>>,
           <<"engine", t[1], t[2]>>, <<"type", t[1], t[2]>>>>
    ELSE <<<<"name", t[1], t[2]>>, <<"id", t[1], t[2]>>, <<"zone", t[1], 0>>,
           <<"type", t[1], t[2]>>>>
LabelsUp(fam, t) ==
    IF fam = "database"
    THEN <<<<"id", t[1], t[2]>>, <<"name", t[1], t[2]>>, <<"region", t[1], 0>>,
           <<"engine", t[1], t[2]>>, <<"type", t[1], t[2]>>>>
    ELSE <<<<"id", t[1], t[2]>>, <<"name", t[1], t[2]>>, <<"zone", t[1], 0>>,
           <<"type", t[1], t[2]>>>>

LabelsSeries(fam, t, s) ==
    IF fam = "loadbalancer"
    THEN LabelsUp(fam, t)
    ELSE <<<<"id", t[1], t[2]>>, <<"name", t[1], t[2]>>, <<"node", s.meta, 0>>>>

LabelsBucket(t) ==
    <<<<"name", t[1], t[2]>>, <<"region", t[1], 0>>, <<"public", t[1], t[2]>>>>

Obs(d, val, labels) == [desc |-> d, value |-> val, labels |-> labels]

\* ch <- metric: the metric is handed to the channel once
SendTwice(ch, o) == ch (+) SetToBag({o}) (+) SetToBag({o})
Send(ch, o) == ch (+) SetToBag({o})

\* the metrics in the sink that carry the ID (or bucket name) of resource <<p, i>>
ObsOf(p, i) ==
    {o \in BagToSet(sink) : o.labels[1][2] = p /\ o.labels[1][3] = i}

-----------------------------------------------------------------------------
(* The error CounterVec *)

\* errors.WithLabelValues(label).Add(n): creates the series when it is missing;
\* the addition is one atomic step of the counter
CounterStore(errs, label, n) == (label :> n) @@ errs
CounterAdd(errs, label, n) ==
    IF label \in DOMAIN errs
    THEN [errs EXCEPT ![label] = @ + n]
    ELSE errs @@ (label :> n)

\* errors.WithLabelValues(name).Add(0) of a constructor: the label exists from
\* then on and keeps the value it has
RegisterReset(errs, label) == (label :> 0) @@ errs
Register(errs, label) == CounterAdd(errs, label, 0)

Count(label) == IF label \in DOMAIN errors THEN errors[label] ELSE 0

\* the label of the increment made when the inventory call fails
InventoryErrLabelOther(fam) == "exporter"
InventoryErrLabel(fam) ==
    CASE fam = "database" -> "database"
      [] fam = "loadbalancer" -> "loadbalancer"
      [] fam = "redis" -> "clusters"
      [] OTHER -> "bucket"

\* the label of the increment made when the metrics call fails
MetricsErrLabelOther(fam) == "exporter"
MetricsErrLabel(fam) ==
    CASE fam = "database" -> "database"
      [] fam = "loadbalancer" -> "loadbalancer"
      [] fam = "redis" -> "redis"
      [] OTHER -> "bucket"

\* the label of the increment made for a mapped series without points
EmptySeriesLabel(fam) ==
    CASE fam = "database" -> "database"
      [] fam = "loadbalancer" -> "database"
      [] OTHER -> "redis"

-----------------------------------------------------------------------------
(* Initial state: the collectors are constructed, no scrape has run *)

\* SCALEWAY_REGION / SCALEWAY_ZONE is not set
Unset == 0

\* the billing upstream when the billing collector is not the one scraped
NoLedger == [projects |-> [kind |-> "none", projects |-> <<>>],
             report |-> [kind |-> "none", consumptions |-> <<>>]]

\* main has run with nothing disabled and serves: collector fam is registered
\* with the list zs
Served(fam, zs) ==
    /\ cfg = [keys |-> TRUE, region |-> Unset, zone |-> Unset, org |-> FALSE,
              disabled |-> {}]
    /\ mainPc = "serving"
    /\ partitions = [regions |-> zs, zones |-> zs]
    /\ client = [region |-> 1]
    /\ registry = (fam :> zs)
    /\ logged = {}

\* sizes: the lengths the partition list may have; answers: for each family,
\* the answers its inventory endpoint may give
ScrapeInit(sizes, answers) ==
    /\ family \in Families
    /\ \E n \in sizes :
         /\ zones = [k \in 1..n |-> k]
         /\ inventory \in [1..n -> answers[family]]
    /\ collectPc = "idle"
    /\ zi = 1
    /\ li = 1
    /\ defers = <<>>
    /\ queried = {}
    /\ wg = [w \in 0..MaxParts |-> 0]
    /\ bwg = [b \in Buckets |-> 0]
    /\ taskPc = [t \in Tasks |-> "none"]
    /\ taskResp = [t \in Tasks |-> NoResp]
    /\ taskIdx = [t \in Tasks |-> 1]
    /\ bucketPc = [b \in Buckets |-> "none"]
    /\ errors = [l \in Families |-> 0]
    /\ sink = EmptyBag
    /\ panicked = {}
    /\ input = <<>>
    /\ points = <<>>
    /\ rpc = "off"
    /\ rvalue = 0
    /\ expired = FALSE
    /\ run = 1
    /\ built = 1
    /\ firstSink = EmptyBag
    /\ firstResp = [t \in Tasks |-> NoResp]
    /\ Served(family, zones)
    /\ ledger = NoLedger

Init == ScrapeInit(1..MaxParts, [f \in Families |-> InventoryAnswers(f)])

-----------------------------------------------------------------------------
(* Collect of the database, load-balancer and redis collectors *)

\* the WaitGroup the goroutines of partition z are counted in: one for the
\* whole run (database), one per zone (load balancer, redis)
WgOf(fam, z) == IF fam \in {"loadbalancer", "redis"} THEN z ELSE 0

\* defer parentWg.Done(): the goroutine takes one off the counter as it returns
DoneForgotten(n) == n
Done(n) == n - 1

\* where the `return` of an error branch leads: the deferred wg.Wait() calls
\* run before Collect returns
EarlyReturnNoWait == "returned"
EarlyReturn == "unwind"

\* what a freshly launched goroutine does first: the zoned collectors with an
\* Up descriptor send it, redis goes straight to the metrics call
FirstPcNoUp(fam) == "call"
FirstPc(fam) == IF fam \in {"database", "loadbalancer"} THEN "start" ELSE "call"

CollectStart ==
    /\ panicked = {}
    /\ collectPc = "idle"
    /\ collectPc' = IF family = "bucket" THEN "listbuckets" ELSE "loop"
    /\ defers' = IF family = "database" THEN <<0>> ELSE <<>>
    /\ UNCHANGED reducerVars
    /\ UNCHANGED exporterVars
    /\ UNCHANGED runVars
    /\ UNCHANGED <<family, zones, inventory, zi, li, queried, wg, bwg, taskPc,
                   taskResp, taskIdx, bucketPc, errors, sink, panicked>>

\* the inventory call of the next partition is issued
ListIssue ==
    /\ panicked = {}
    /\ collectPc = "loop"
    /\ zi <= Len(zones)
    /\ queried' = queried \cup {zones[zi]}
    /\ collectPc' = "listing"
    /\ UNCHANGED reducerVars
    /\ UNCHANGED exporterVars
    /\ UNCHANGED runVars
    /\ UNCHANGED <<family, zones, inventory, zi, li, defers, wg, bwg, taskPc,
                   taskResp, taskIdx, bucketPc, errors, sink, panicked>>

\* the range over the partitions is exhausted
LoopEnd ==
    /\ panicked = {}
    /\ collectPc = "loop"
    /\ zi > Len(zones)
    /\ collectPc' = "unwind"
    /\ UNCHANGED reducerVars
    /\ UNCHANGED exporterVars
    /\ UNCHANGED runVars
    /\ UNCHANGED <<family, zones, inventory, zi, li, defers, queried, wg, bwg,
                   taskPc, taskResp, taskIdx, bucketPc, errors, sink, panicked>>

\* case errors.As(err, &responseError) &&
\*      responseError.StatusCode == http.StatusNotImplemented
NotImplementedNever(a) == FALSE
NotImplemented(a) == a.kind = "e501"

\* the statement that ends both branches of the error switch is return: the
\* range over the partitions is left where it stands (a continue would move
\* to the next partition)
OnListErrorContinue == [pc |-> "loop", step |-> 1]
OnListError == [pc |-> EarlyReturn, step |-> 0]

\* err != nil, default branch: count, warn, return
ListFail ==
    /\ panicked = {}
    /\ collectPc = "listing"
    /\ inventory[zones[zi]].kind \in {"err", "e501"}
    /\ ~NotImplemented(inventory[zones[zi]])
    /\ errors' = CounterAdd(errors, InventoryErrLabel(family), 1)
    /\ collectPc' = OnListError.pc
    /\ zi' = zi + OnListError.step
    /\ UNCHANGED reducerVars
    /\ UNCHANGED exporterVars
    /\ UNCHANGED runVars
    /\ UNCHANGED <<family, zones, inventory, li, defers, queried, wg, bwg,
                   taskPc, taskResp, taskIdx, bucketPc, sink, panicked>>

\* err is a ResponseError with status 501: debug log, return
ListNotImplemented ==
    /\ panicked = {}
    /\ collectPc = "listing"
    /\ NotImplemented(inventory[zones[zi]])
    /\ collectPc' = OnListError.pc
    /\ zi' = zi + OnListError.step
    /\ UNCHANGED reducerVars
    /\ UNCHANGED exporterVars
    /\ UNCHANGED runVars
    /\ UNCHANGED <<family, zones, inventory, li, defers, queried, wg, bwg,
                   taskPc, taskResp, taskIdx, bucketPc, errors, sink, panicked>>

\* the inventory call succeeded; the per-zone collectors declare a WaitGroup
\* and defer its Wait
ListOkSkipLaunch ==
    /\ panicked = {}
    /\ collectPc = "listing"
    /\ inventory[zones[zi]].kind = "ok"
    /\ zi' = zi + 1
    /\ collectPc' = "loop"
    /\ UNCHANGED reducerVars
    /\ UNCHANGED exporterVars
    /\ UNCHANGED runVars
    /\ UNCHANGED <<family, zones, inventory, li, defers, queried, wg, bwg, taskPc,
                   taskResp, taskIdx, bucketPc, errors, sink, panicked>>

ListOk ==
    /\ panicked = {}
    /\ collectPc = "listing"
    /\ inventory[zones[zi]].kind = "ok"
    /\ defers' = IF family \in {"loadbalancer", "redis"}
                 THEN <<zones[zi]>> \o defers
                 ELSE defers
    /\ li' = 1
    /\ collectPc' = "launch"
    /\ UNCHANGED reducerVars
    /\ UNCHANGED exporterVars
    /\ UNCHANGED runVars
    /\ UNCHANGED <<family, zones, inventory, zi, queried, wg, bwg, taskPc,
                   taskResp, taskIdx, bucketPc, errors, sink, panicked>>

\* wg.Add(1); go c.Fetch...(&wg, ch, resource)
Launch ==
    /\ panicked = {}
    /\ family \in Zoned
    /\ collectPc = "launch"
    /\ li <= Len(Listed(family, inventory[zones[zi]]))
    /\ wg' = [wg EXCEPT ![WgOf(family, zones[zi])] = @ + 1]
    /\ taskPc' = [taskPc EXCEPT ![<<zones[zi], li, "metrics">>] = FirstPc(family)]
    /\ li' = li + 1
    /\ UNCHANGED reducerVars
    /\ UNCHANGED exporterVars
    /\ UNCHANGED runVars
    /\ UNCHANGED <<family, zones, inventory, collectPc, zi, defers, queried, bwg,
                   taskResp, taskIdx, bucketPc, errors, sink, panicked>>

\* for _, zone := range c.zones: the iteration reads the collector's list
\* and leaves it as it is
RangedOverwritten(zs) == [zs EXCEPT ![1] = zs[Len(zs)]]
Ranged(zs) == zs

\* every resource of the response is launched: next partition
LaunchEnd ==
    /\ panicked = {}
    /\ family \in Zoned
    /\ collectPc = "launch"
    /\ li > Len(Listed(family, inventory[zones[zi]]))
    /\ zi' = zi + 1
    /\ zones' = Ranged(zones)
    /\ collectPc' = "loop"
    /\ UNCHANGED reducerVars
    /\ UNCHANGED exporterVars
    /\ UNCHANGED runVars
    /\ UNCHANGED <<family, inventory, li, defers, queried, wg, bwg, taskPc,
                   taskResp, taskIdx, bucketPc, errors, sink, panicked>>

\* a deferred wg.Wait() returns once its counter is zero
DeferredWait ==
    /\ panicked = {}
    /\ collectPc = "unwind"
    /\ defers # <<>>
    /\ wg[Head(defers)] = 0
    /\ defers' = Tail(defers)
    /\ UNCHANGED reducerVars
    /\ UNCHANGED exporterVars
    /\ UNCHANGED runVars
    /\ UNCHANGED <<family, zones, inventory, collectPc, zi, li, queried, wg, bwg,
                   taskPc, taskResp, taskIdx, bucketPc, errors, sink, panicked>>

\* no deferred call is left: Collect returns to the registry
CollectReturn ==
    /\ panicked = {}
    /\ collectPc = "unwind"
    /\ defers = <<>>
    /\ collectPc' = "returned"
    /\ UNCHANGED reducerVars
    /\ UNCHANGED exporterVars
    /\ UNCHANGED runVars
    /\ UNCHANGED <<family, zones, inventory, zi, li, defers, queried, wg, bwg,
                   taskPc, taskResp, taskIdx, bucketPc, errors, sink, panicked>>

-----------------------------------------------------------------------------
(* FetchMetricsForInstance, FetchLoadbalancerMetrics, FetchRedisMetrics *)

\* the upstream state does not change between two consecutive runs: a metrics
\* call of a later run is answered as the same call of the run before
SameAnswer(t, r) == run = 1 \/ firstResp[t] = r

Status(t) == Listed(family, inventory[t[1]])[t[2]]

CurSeries(t) == taskResp[t].series[taskIdx[t]]

InLoop(t) == taskPc[t] = "series" /\ taskIdx[t] <= Len(taskResp[t].series)

\* go c.Fetch...(&wg, ch, resource): the arguments of a go statement are
\* evaluated when the statement runs, so the goroutine works on the resource
\* of its own iteration whatever the loop does afterwards (the other reading:
\* the goroutine reads the loop's variables each time it uses them)
TaskResourceShared(t) ==
    <<zones[IF zi > Len(zones) THEN Len(zones) ELSE zi],
      IF li > 1 THEN li - 1 ELSE 1,
      t[3]>>
TaskResource(t) == t

\* ch <- MustNewConstMetric(c.Up, GaugeValue, active, labels...)
TaskUp(t) ==
    /\ panicked = {}
    /\ family \in Zoned
    /\ taskPc[t] = "start"
    /\ sink' = Send(sink, Obs(UpDesc(family), UpValue(family, Status(t)),
                               LabelsUp(family, TaskResource(t))))
    /\ taskPc' = [taskPc EXCEPT ![t] = "call"]
    /\ UNCHANGED reducerVars
    /\ UNCHANGED exporterVars
    /\ UNCHANGED runVars
    /\ UNCHANGED <<family, zones, inventory, collectPc, zi, li, defers, queried,
                   wg, bwg, taskResp, taskIdx, bucketPc, errors, panicked>>

\* the metrics call of the resource is issued
TaskCall(t) ==
    /\ panicked = {}
    /\ family \in Zoned
    /\ taskPc[t] = "call"
    /\ taskPc' = [taskPc EXCEPT ![t] = "fetching"]
    /\ UNCHANGED reducerVars
    /\ UNCHANGED exporterVars
    /\ UNCHANGED runVars
    /\ UNCHANGED <<family, zones, inventory, collectPc, zi, li, defers, queried,
                   wg, bwg, taskResp, taskIdx, bucketPc, errors, sink, panicked>>

\* err != nil: count, warn, return (the deferred parentWg.Done() runs)
TaskFetchFail(t) ==
    /\ panicked = {}
    /\ family \in Zoned
    /\ taskPc[t] = "fetching"
    /\ SameAnswer(t, ErrResp)
    /\ taskResp' = [taskResp EXCEPT ![t] = ErrResp]
    /\ errors' = CounterAdd(errors, MetricsErrLabel(family), 1)
    /\ taskPc' = [taskPc EXCEPT ![t] = "done"]
    /\ wg' = [wg EXCEPT ![WgOf(family, t[1])] = Done(@)]
    /\ UNCHANGED reducerVars
    /\ UNCHANGED exporterVars
    /\ UNCHANGED runVars
    /\ UNCHANGED <<family, zones, inventory, collectPc, zi, li, defers, queried,
                   bwg, taskIdx, bucketPc, sink, panicked>>

\* the metrics call returned a list of series
TaskFetchOk(t) ==
    /\ panicked = {}
    /\ family \in Zoned
    /\ taskPc[t] = "fetching"
    /\ \E r \in OkResponses(family, t[3]) :
          /\ SameAnswer(t, r)
          /\ taskResp' = [taskResp EXCEPT ![t] = r]
    /\ taskPc' = [taskPc EXCEPT ![t] = "series"]
    /\ UNCHANGED reducerVars
    /\ UNCHANGED exporterVars
    /\ UNCHANGED runVars
    /\ UNCHANGED <<family, zones, inventory, collectPc, zi, li, defers, queried,
                   wg, bwg, taskIdx, bucketPc, errors, sink, panicked>>

\* switch timeseries.Name, default branch: debug log, continue
TaskSeriesUnmapped(t) ==
    /\ panicked = {}
    /\ family \in Zoned
    /\ InLoop(t)
    /\ DescOf(family, CurSeries(t).name) = NoDesc
    /\ taskIdx' = [taskIdx EXCEPT ![t] = @ + 1]
    /\ UNCHANGED reducerVars
    /\ UNCHANGED exporterVars
    /\ UNCHANGED runVars
    /\ UNCHANGED <<family, zones, inventory, collectPc, zi, li, defers, queried,
                   wg, bwg, taskPc, taskResp, bucketPc, errors, sink, panicked>>

\* len(timeseries.Points) == 0: count, warn, continue
TaskSeriesEmpty(t) ==
    /\ panicked = {}
    /\ family \in Zoned
    /\ InLoop(t)
    /\ DescOf(family, CurSeries(t).name) # NoDesc
    /\ Len(CurSeries(t).points) = 0
    /\ errors' = CounterAdd(errors, EmptySeriesLabel(family), 1)
    /\ taskIdx' = [taskIdx EXCEPT ![t] = @ + 1]
    /\ UNCHANGED reducerVars
    /\ UNCHANGED exporterVars
    /\ UNCHANGED runVars
    /\ UNCHANGED <<family, zones, inventory, collectPc, zi, li, defers, queried,
                   wg, bwg, taskPc, taskResp, bucketPc, sink, panicked>>

\* sort, take the last point, ch <- MustNewConstMetric(series, ...)
TaskSeriesEmit(t) ==
    /\ panicked = {}
    /\ family \in Zoned
    /\ InLoop(t)
    /\ DescOf(family, CurSeries(t).name) # NoDesc
    /\ Len(CurSeries(t).points) > 0
    /\ sink' = Send(sink, Obs(DescOf(family, CurSeries(t).name),
                               LatestValue(CurSeries(t).points),
                               LabelsSeries(family, TaskResource(t), CurSeries(t))))
    /\ taskIdx' = [taskIdx EXCEPT ![t] = @ + 1]
    /\ UNCHANGED reducerVars
    /\ UNCHANGED exporterVars
    /\ UNCHANGED runVars
    /\ UNCHANGED <<family, zones, inventory, collectPc, zi, li, defers, queried,
                   wg, bwg, taskPc, taskResp, bucketPc, errors, panicked>>

\* the range over the series is exhausted: the deferred parentWg.Done() runs
TaskExit(t) ==
    /\ panicked = {}
    /\ family \in Zoned
    /\ taskPc[t] = "series"
    /\ taskIdx[t] > Len(taskResp[t].series)
    /\ wg' = [wg EXCEPT ![WgOf(family, t[1])] = Done(@)]
    /\ taskPc' = [taskPc EXCEPT ![t] = "done"]
    /\ UNCHANGED reducerVars
    /\ UNCHANGED exporterVars
    /\ UNCHANGED runVars
    /\ UNCHANGED <<family, zones, inventory, collectPc, zi, li, defers, queried,
                   bwg, taskResp, taskIdx, bucketPc, errors, sink, panicked>>

-----------------------------------------------------------------------------
(* The bucket collector: Collect, FetchMetricsForBucket, HandleSimpleMetric,  *)
(* HandleMultiMetrics. It queries c.region, the client's default region,     *)
(* which main sets to the first configured region.                            *)

\* c.s3Client.ListBuckets failed: count, warn, return
BucketListFail ==
    /\ panicked = {}
    /\ collectPc = "listbuckets"
    /\ inventory[zones[1]].kind = "err"
    /\ queried' = queried \cup {zones[1]}
    /\ errors' = CounterAdd(errors, InventoryErrLabel(family), 1)
    /\ collectPc' = EarlyReturn
    /\ UNCHANGED reducerVars
    /\ UNCHANGED exporterVars
    /\ UNCHANGED runVars
    /\ UNCHANGED <<family, zones, inventory, zi, li, defers, wg, bwg, taskPc,
                   taskResp, taskIdx, bucketPc, sink, panicked>>

\* ListBuckets succeeded: the buckets-info request is built and sent
BucketListOk ==
    /\ panicked = {}
    /\ collectPc = "listbuckets"
    /\ inventory[zones[1]].kind # "err"
    /\ queried' = queried \cup {zones[1]}
    /\ collectPc' = "info"
    /\ UNCHANGED reducerVars
    /\ UNCHANGED exporterVars
    /\ UNCHANGED runVars
    /\ UNCHANGED <<family, zones, inventory, zi, li, defers, wg, bwg, taskPc,
                   taskResp, taskIdx, bucketPc, errors, sink, panicked>>

\* the buckets-info call failed: count, warn, return
BucketInfoFail ==
    /\ panicked = {}
    /\ collectPc = "info"
    /\ inventory[zones[1]].kind = "infoerr"
    /\ errors' = CounterAdd(errors, InventoryErrLabel(family), 1)
    /\ collectPc' = EarlyReturn
    /\ UNCHANGED reducerVars
    /\ UNCHANGED exporterVars
    /\ UNCHANGED runVars
    /\ UNCHANGED <<family, zones, inventory, zi, li, defers, queried, wg, bwg,
                   taskPc, taskResp, taskIdx, bucketPc, sink, panicked>>

\* the buckets-info call succeeded: var wg; defer wg.Wait()
BucketInfoOk ==
    /\ panicked = {}
    /\ collectPc = "info"
    /\ inventory[zones[1]].kind = "ok"
    /\ defers' = <<0>>
    /\ li' = 1
    /\ collectPc' = "launch"
    /\ UNCHANGED reducerVars
    /\ UNCHANGED exporterVars
    /\ UNCHANGED runVars
    /\ UNCHANGED <<family, zones, inventory, zi, queried, wg, bwg, taskPc,
                   taskResp, taskIdx, bucketPc, errors, sink, panicked>>

\* wg.Add(1); go c.FetchMetricsForBucket(&wg, ch, name, bucket)
BucketLaunch ==
    /\ panicked = {}
    /\ family = "bucket"
    /\ collectPc = "launch"
    /\ li <= Len(inventory[zones[1]].res)
    /\ wg' = [wg EXCEPT ![0] = @ + 1]
    /\ bucketPc' = [bucketPc EXCEPT ![<<zones[1], li>>] = "start"]
    /\ li' = li + 1
    /\ UNCHANGED reducerVars
    /\ UNCHANGED exporterVars
    /\ UNCHANGED runVars
    /\ UNCHANGED <<family, zones, inventory, collectPc, zi, defers, queried, bwg,
                   taskPc, taskResp, taskIdx, errors, sink, panicked>>

\* every bucket of the response is launched: Collect reaches its end
BucketLaunchEnd ==
    /\ panicked = {}
    /\ family = "bucket"
    /\ collectPc = "launch"
    /\ li > Len(inventory[zones[1]].res)
    /\ collectPc' = "unwind"
    /\ UNCHANGED reducerVars
    /\ UNCHANGED exporterVars
    /\ UNCHANGED runVars
    /\ UNCHANGED <<family, zones, inventory, zi, li, defers, queried, wg, bwg,
                   taskPc, taskResp, taskIdx, bucketPc, errors, sink, panicked>>

\* FetchMetricsForBucket: wg.Add(3) and the three go statements
BucketSpawn(b) ==
    /\ panicked = {}
    /\ bucketPc[b] = "start"
    /\ bwg' = [bwg EXCEPT ![b] = @ + 3]
    /\ taskPc' = [t \in Tasks |->
                    IF t[1] = b[1] /\ t[2] = b[2] /\ t[3] \in BucketMetrics
                    THEN "fetching"
                    ELSE taskPc[t]]
    /\ bucketPc' = [bucketPc EXCEPT ![b] = "wait"]
    /\ UNCHANGED reducerVars
    /\ UNCHANGED exporterVars
    /\ UNCHANGED runVars
    /\ UNCHANGED <<family, zones, inventory, collectPc, zi, li, defers, queried,
                   wg, taskResp, taskIdx, errors, sink, panicked>>

\* the deferred wg.Wait() of FetchMetricsForBucket returns when the counter
\* of the bucket's own WaitGroup is zero
WaitOverAtOnce(n) == TRUE
WaitOver(n) == n = 0

\* FetchMetricsForBucket returns: the deferred wg.Wait(), then parentWg.Done()
BucketJoin(b) ==
    /\ panicked = {}
    /\ bucketPc[b] = "wait"
    /\ WaitOver(bwg[b])
    /\ wg' = [wg EXCEPT ![0] = Done(@)]
    /\ bucketPc' = [bucketPc EXCEPT ![b] = "done"]
    /\ UNCHANGED reducerVars
    /\ UNCHANGED exporterVars
    /\ UNCHANGED runVars
    /\ UNCHANGED <<family, zones, inventory, collectPc, zi, li, defers, queried,
                   bwg, taskPc, taskResp, taskIdx, errors, sink, panicked>>

\* what a failed FetchMetric adds to the counter: 1, or len(options.DescMatrix)
FetchFailCountOne(m) == 1
FetchFailCount(m) == IF m = "storage_usage" THEN DescMatrixLen ELSE 1

\* FetchMetric returned an error: count, warn, return
BucketFetchFail(t) ==
    /\ panicked = {}
    /\ family = "bucket"
    /\ taskPc[t] = "fetching"
    /\ SameAnswer(t, ErrResp)
    /\ taskResp' = [taskResp EXCEPT ![t] = ErrResp]
    /\ errors' = CounterAdd(errors, MetricsErrLabel(family), FetchFailCount(t[3]))
    /\ bwg' = [bwg EXCEPT ![<<t[1], t[2]>>] = Done(@)]
    /\ taskPc' = [taskPc EXCEPT ![t] = "done"]
    /\ UNCHANGED reducerVars
    /\ UNCHANGED exporterVars
    /\ UNCHANGED runVars
    /\ UNCHANGED <<family, zones, inventory, collectPc, zi, li, defers, queried,
                   wg, taskIdx, bucketPc, sink, panicked>>

\* FetchMetric returned a list of series
BucketFetchOk(t) ==
    /\ panicked = {}
    /\ family = "bucket"
    /\ taskPc[t] = "fetching"
    /\ \E r \in OkResponses(family, t[3]) :
          /\ SameAnswer(t, r)
          /\ taskResp' = [taskResp EXCEPT ![t] = r]
    /\ taskPc' = [taskPc EXCEPT ![t] = "series"]
    /\ UNCHANGED reducerVars
    /\ UNCHANGED exporterVars
    /\ UNCHANGED runVars
    /\ UNCHANGED <<family, zones, inventory, collectPc, zi, li, defers, queried,
                   wg, bwg, taskIdx, bucketPc, errors, sink, panicked>>

\* the descriptor HandleSimpleMetric / HandleMultiMetrics hands to
\* MustNewConstMetric for a series
BucketDesc(m, series) ==
    IF m = "storage_usage" THEN DescMatrix(series.meta) ELSE SimpleDesc(m)

\* timeseries.Points[len(timeseries.Points)-1] on an empty slice, or
\* MustNewConstMetric on a nil descriptor: the goroutine panics
BucketSeriesPanic(t) ==
    /\ panicked = {}
    /\ family = "bucket"
    /\ InLoop(t)
    /\ \/ Len(CurSeries(t).points) = 0
       \/ BucketDesc(t[3], CurSeries(t)) = NoDesc
    /\ panicked' = {t}
    /\ UNCHANGED reducerVars
    /\ UNCHANGED exporterVars
    /\ UNCHANGED runVars
    /\ UNCHANGED <<family, zones, inventory, collectPc, zi, li, defers, queried,
                   wg, bwg, taskPc, taskResp, taskIdx, bucketPc, errors, sink>>

\* sort, take the last point, ch <- MustNewConstMetric(desc, ...)
BucketSeriesEmit(t) ==
    /\ panicked = {}
    /\ family = "bucket"
    /\ InLoop(t)
    /\ Len(CurSeries(t).points) > 0
    /\ BucketDesc(t[3], CurSeries(t)) # NoDesc
    /\ sink' = Send(sink, Obs(BucketDesc(t[3], CurSeries(t)),
                               LatestValue(CurSeries(t).points),
                               LabelsBucket(TaskResource(t))))
    /\ taskIdx' = [taskIdx EXCEPT ![t] = @ + 1]
    /\ UNCHANGED reducerVars
    /\ UNCHANGED exporterVars
    /\ UNCHANGED runVars
    /\ UNCHANGED <<family, zones, inventory, collectPc, zi, li, defers, queried,
                   wg, bwg, taskPc, taskResp, bucketPc, errors, panicked>>

\* the range over the series is exhausted: the deferred parentWg.Done() runs
BucketTaskExit(t) ==
    /\ panicked = {}
    /\ family = "bucket"
    /\ taskPc[t] = "series"
    /\ taskIdx[t] > Len(taskResp[t].series)
    /\ bwg' = [bwg EXCEPT ![<<t[1], t[2]>>] = Done(@)]
    /\ taskPc' = [taskPc EXCEPT ![t] = "done"]
    /\ UNCHANGED reducerVars
    /\ UNCHANGED exporterVars
    /\ UNCHANGED runVars
    /\ UNCHANGED <<family, zones, inventory, collectPc, zi, li, defers, queried,
                   wg, taskResp, taskIdx, bucketPc, errors, sink, panicked>>

-----------------------------------------------------------------------------
(* The scrape *)

CollectStep ==
    \/ CollectStart
    \/ ListIssue
    \/ LoopEnd
    \/ ListFail
    \/ ListNotImplemented
    \/ ListOk
    \/ Launch
    \/ LaunchEnd
    \/ DeferredWait
    \/ CollectReturn

TaskStep ==
    \E t \in Tasks :
        \/ TaskUp(t)
        \/ TaskCall(t)
        \/ TaskFetchFail(t)
        \/ TaskFetchOk(t)
        \/ TaskSeriesUnmapped(t)
        \/ TaskSeriesEmpty(t)
        \/ TaskSeriesEmit(t)
        \/ TaskExit(t)

BucketStep ==
    \/ BucketListFail
    \/ BucketListOk
    \/ BucketInfoFail
    \/ BucketInfoOk
    \/ BucketLaunch
    \/ BucketLaunchEnd
    \/ \E b \in Buckets : BucketSpawn(b) \/ BucketJoin(b)
    \/ \E t \in Tasks :
          \/ BucketFetchFail(t)
          \/ BucketFetchOk(t)
          \/ BucketSeriesPanic(t)
          \/ BucketSeriesEmit(t)
          \/ BucketTaskExit(t)

Next ==
    \/ CollectStep
    \/ TaskStep
    \/ BucketStep

Spec == Init /\ [][Next]_vars

\* a scrape in which Collect and every goroutine that can take a step is
\* scheduled again, every upstream call returns and the registry keeps
\* receiving from the channel
SpecLive == Init /\ [][Next]_vars /\ WF_vars(Next)

\* a bucket scrape of a region with up to MaxRes + MaxMore buckets. To keep
\* the six goroutines of two buckets within reach, the answer of each metrics
\* call is fixed beforehand (as in a scrape that repeats the answers of the
\* one before): per metric an error or one good series, and for the storage
\* usage also a series without points.
BucketLists ==
    {[kind |-> k, res |-> <<>>, more |-> <<>>] : k \in {"err", "infoerr"}}
    \cup {[kind |-> "ok", res |-> r, more |-> <<>>] :
              r \in SeqUpTo(StatusSample("bucket"), MaxRes + MaxMore)}

GoodAnswer(m) ==
    [kind |-> "ok",
     series |-> <<[name |-> m,
                   meta |-> IF m = "storage_usage" THEN "STANDARD" ELSE "",
                   points |-> GoodPoints]>>]

EmptyAnswer(m) ==
    [kind |-> "ok",
     series |-> <<[name |-> m, meta |-> "STANDARD", points |-> <<>>]>>]

FixedAnswers(m) ==
    IF m = "storage_usage"
    THEN {ErrResp, GoodAnswer(m), EmptyAnswer(m)}
    ELSE {ErrResp, GoodAnswer(m)}

InitBuckets ==
    /\ family = "bucket"
    /\ zones = <<1>>
    /\ inventory \in [{1} -> BucketLists]
    /\ collectPc = "idle"
    /\ zi = 1
    /\ li = 1
    /\ defers = <<>>
    /\ queried = {}
    /\ wg = [w \in 0..MaxParts |-> 0]
    /\ bwg = [b \in Buckets |-> 0]
    /\ taskPc = [t \in Tasks |-> "none"]
    /\ taskResp = [t \in Tasks |-> NoResp]
    /\ taskIdx = [t \in Tasks |-> 1]
    /\ bucketPc = [b \in Buckets |-> "none"]
    /\ errors = [l \in Families |-> 0]
    /\ sink = EmptyBag
    /\ panicked = {}
    /\ input = <<>>
    /\ points = <<>>
    /\ rpc = "off"
    /\ rvalue = 0
    /\ expired = FALSE
    /\ run = MaxRuns
    /\ built = 1
    /\ firstSink = EmptyBag
    /\ \E ans \in [BucketMetrics -> UNION {FixedAnswers(m) : m \in BucketMetrics}] :
          /\ \A m \in BucketMetrics : ans[m] \in FixedAnswers(m)
          /\ firstResp = [t \in Tasks |->
                            IF t[3] \in BucketMetrics THEN ans[t[3]] ELSE NoResp]
    /\ Served(family, zones)
    /\ ledger = NoLedger

NextBuckets ==
    \/ CollectStart
    \/ BucketStep
    \/ DeferredWait
    \/ CollectReturn

SpecBuckets == InitBuckets /\ [][NextBuckets]_vars

\* The launch of a goroutine in two steps, as the statements follow one
\* another in the loops: wg.Add, then the go statement.

\* wg.Add(1) of the resource loop
LaunchAdd ==
    /\ panicked = {}
    /\ family \in Zoned
    /\ collectPc = "launch"
    /\ li <= Len(Listed(family, inventory[zones[zi]]))
    /\ taskPc[<<zones[zi], li, "metrics">>] = "none"
    /\ wg' = [wg EXCEPT ![WgOf(family, zones[zi])] = @ + 1]
    /\ taskPc' = [taskPc EXCEPT ![<<zones[zi], li, "metrics">>] = "added"]
    /\ UNCHANGED reducerVars
    /\ UNCHANGED exporterVars
    /\ UNCHANGED runVars
    /\ UNCHANGED <<family, zones, inventory, collectPc, zi, li, defers, queried,
                   bwg, taskResp, taskIdx, bucketPc, errors, sink, panicked>>

\* go c.Fetch...(&wg, ch, resource) of the resource loop
LaunchGo ==
    /\ panicked = {}
    /\ family \in Zoned
    /\ collectPc = "launch"
    /\ li <= Len(Listed(family, inventory[zones[zi]]))
    /\ taskPc[<<zones[zi], li, "metrics">>] = "added"
    /\ taskPc' = [taskPc EXCEPT ![<<zones[zi], li, "metrics">>] = FirstPc(family)]
    /\ li' = li + 1
    /\ UNCHANGED reducerVars
    /\ UNCHANGED exporterVars
    /\ UNCHANGED runVars
    /\ UNCHANGED <<family, zones, inventory, collectPc, zi, defers, queried, wg,
                   bwg, taskResp, taskIdx, bucketPc, errors, sink, panicked>>

\* wg.Add(1) of the bucket loop
BucketLaunchAdd ==
    /\ panicked = {}
    /\ family = "bucket"
    /\ collectPc = "launch"
    /\ li <= Len(inventory[zones[1]].res)
    /\ bucketPc[<<zones[1], li>>] = "none"
    /\ wg' = [wg EXCEPT ![0] = @ + 1]
    /\ bucketPc' = [bucketPc EXCEPT ![<<zones[1], li>>] = "added"]
    /\ UNCHANGED reducerVars
    /\ UNCHANGED exporterVars
    /\ UNCHANGED runVars
    /\ UNCHANGED <<family, zones, inventory, collectPc, zi, li, defers, queried,
                   bwg, taskPc, taskResp, taskIdx, errors, sink, panicked>>

\* go c.FetchMetricsForBucket(&wg, ch, name, bucket)
BucketLaunchGo ==
    /\ panicked = {}
    /\ family = "bucket"
    /\ collectPc = "launch"
    /\ li <= Len(inventory[zones[1]].res)
    /\ bucketPc[<<zones[1], li>>] = "added"
    /\ bucketPc' = [bucketPc EXCEPT ![<<zones[1], li>>] = "start"]
    /\ li' = li + 1
    /\ UNCHANGED reducerVars
    /\ UNCHANGED exporterVars
    /\ UNCHANGED runVars
    /\ UNCHANGED <<family, zones, inventory, collectPc, zi, defers, queried, wg,
                   bwg, taskPc, taskResp, taskIdx, errors, sink, panicked>>

\* FetchMetricsForBucket: wg.Add(3)
BucketSpawnAdd(b) ==
    /\ panicked = {}
    /\ bucketPc[b] = "start"
    /\ bwg' = [bwg EXCEPT ![b] = @ + 3]
    /\ bucketPc' = [bucketPc EXCEPT ![b] = "spawn"]
    /\ UNCHANGED reducerVars
    /\ UNCHANGED exporterVars
    /\ UNCHANGED runVars
    /\ UNCHANGED <<family, zones, inventory, collectPc, zi, li, defers, queried,
                   wg, taskPc, taskResp, taskIdx, errors, sink, panicked>>

\* the three go statements of FetchMetricsForBucket, in their order
GoOrder == <<"object_count", "bytes_sent", "storage_usage">>

\* FetchMetricsForBucket: the next go statement
BucketSpawnGo(b) ==
    /\ panicked = {}
    /\ bucketPc[b] = "spawn"
    /\ \E k \in 1..Len(GoOrder) :
          /\ taskPc[<<b[1], b[2], GoOrder[k]>>] = "none"
          /\ \A j \in 1..(k - 1) : taskPc[<<b[1], b[2], GoOrder[j]>>] # "none"
          /\ taskPc' = [taskPc EXCEPT ![<<b[1], b[2], GoOrder[k]>>] = "fetching"]
          /\ bucketPc' = [bucketPc EXCEPT
                            ![b] = IF k = Len(GoOrder) THEN "wait" ELSE "spawn"]
    /\ UNCHANGED reducerVars
    /\ UNCHANGED exporterVars
    /\ UNCHANGED runVars
    /\ UNCHANGED <<family, zones, inventory, collectPc, zi, li, defers, queried,
                   wg, bwg, taskResp, taskIdx, errors, sink, panicked>>

NextWaitGroup ==
    \/ CollectStart
    \/ ListIssue
    \/ LoopEnd
    \/ ListFail
    \/ ListNotImplemented
    \/ ListOk
    \/ LaunchAdd
    \/ LaunchGo
    \/ LaunchEnd
    \/ DeferredWait
    \/ CollectReturn
    \/ TaskStep
    \/ BucketListFail
    \/ BucketListOk
    \/ BucketInfoFail
    \/ BucketInfoOk
    \/ BucketLaunchAdd
    \/ BucketLaunchGo
    \/ BucketLaunchEnd
    \/ \E b \in Buckets : BucketSpawnAdd(b) \/ BucketSpawnGo(b) \/ BucketJoin(b)
    \/ \E t \in Tasks :
          \/ BucketFetchFail(t)
          \/ BucketFetchOk(t)
          \/ BucketSeriesPanic(t)
          \/ BucketSeriesEmit(t)
          \/ BucketTaskExit(t)

\* a scrape in which wg.Add and the go statement are steps of their own
SpecWaitGroup == Init /\ [][NextWaitGroup]_vars

\* a scrape of one partition whose upstream list may span several pages
InitPages == ScrapeInit({1}, [f \in Families |-> PagedAnswers(f)])

SpecPages == InitPages /\ [][Next]_vars

\* a scrape of one partition whose resource has any status of the enum
InitStatus == ScrapeInit({1}, [f \in Families |-> EnumAnswers(f)])

SpecStatus == InitStatus /\ [][Next]_vars

-----------------------------------------------------------------------------
(* The deadline of the context Collect creates *)

\* the timer of context.WithTimeout fires; the context is assigned to _ and no
\* call receives it
DeadlineExpire ==
    /\ panicked = {}
    /\ collectPc \notin {"new", "idle", "returned"}
    /\ ~expired
    /\ expired' = TRUE
    /\ UNCHANGED collectorVars
    /\ UNCHANGED reducerVars
    /\ UNCHANGED exporterVars
    /\ UNCHANGED <<run, built, firstSink, firstResp>>

NextDeadline ==
    \/ Next
    \/ DeadlineExpire

SpecDeadline == Init /\ [][NextDeadline]_vars

-----------------------------------------------------------------------------
(* Consecutive scrapes of the process, and collectors constructed over the   *)
(* same CounterVec                                                           *)

\* what a Collect run sends again from the run before: nothing, the collector
\* keeps descriptors and clients and no metric
CarriedOverKept(prev) == prev
CarriedOver(prev) == EmptyBag

\* the registry gathers again: Collect is called with a new channel, its
\* locals (wg, labels, responses) are new; the CounterVec lives on. A collector
\* may be constructed anew over the same CounterVec first.
Rescrape ==
    /\ panicked = {}
    /\ collectPc = "returned"
    /\ run < MaxRuns
    /\ run' = run + 1
    /\ firstSink' = sink
    /\ firstResp' = taskResp
    /\ sink' = CarriedOver(sink)
    /\ collectPc' \in {"new", "idle"}
    /\ zi' = 1
    /\ li' = 1
    /\ defers' = <<>>
    /\ queried' = {}
    /\ taskPc' = [t \in Tasks |-> "none"]
    /\ taskResp' = [t \in Tasks |-> NoResp]
    /\ taskIdx' = [t \in Tasks |-> 1]
    /\ bucketPc' = [b \in Buckets |-> "none"]
    /\ expired' = FALSE
    /\ UNCHANGED reducerVars
    /\ UNCHANGED exporterVars
    /\ UNCHANGED <<family, zones, inventory, wg, bwg, errors, panicked, built>>

\* New...Collector(logger, errors, ...): errors.WithLabelValues(name).Add(0)
Construct ==
    /\ collectPc = "new"
    /\ errors' = Register(errors, family)
    /\ built' = built + 1
    /\ collectPc' = "idle"
    /\ UNCHANGED reducerVars
    /\ UNCHANGED exporterVars
    /\ UNCHANGED <<family, zones, inventory, zi, li, defers, queried, wg, bwg,
                   taskPc, taskResp, taskIdx, bucketPc, sink, panicked,
                   expired, run, firstSink, firstResp>>

NextRuns ==
    \/ Next
    \/ Rescrape
    \/ Construct

SpecRuns == Init /\ [][NextRuns]_vars

-----------------------------------------------------------------------------
(* The sample reduction on its own: every series of up to MaxPts points *)

ReducerInit(inputs) ==
    /\ family = "database"
    /\ zones = <<1>>
    /\ inventory = [k \in {1} |-> [kind |-> "ok", res |-> <<>>, more |-> <<>>]]
    /\ collectPc = "idle"
    /\ zi = 1
    /\ li = 1
    /\ defers = <<>>
    /\ queried = {}
    /\ wg = [w \in 0..MaxParts |-> 0]
    /\ bwg = [b \in Buckets |-> 0]
    /\ taskPc = [t \in Tasks |-> "none"]
    /\ taskResp = [t \in Tasks |-> NoResp]
    /\ taskIdx = [t \in Tasks |-> 1]
    /\ bucketPc = [b \in Buckets |-> "none"]
    /\ errors = [l \in Families |-> 0]
    /\ sink = EmptyBag
    /\ panicked = {}
    /\ input \in inputs
    /\ points = input
    /\ rpc = "start"
    /\ rvalue = 0
    /\ expired = FALSE
    /\ run = 1
    /\ built = 1
    /\ firstSink = EmptyBag
    /\ firstResp = [t \in Tasks |-> NoResp]
    /\ Served(family, zones)
    /\ ledger = NoLedger

InitReduce == ReducerInit(SeqUpTo(Point, MaxPts))

\* len(timeseries.Points) == 0: no value for this series
ReduceEmpty ==
    /\ rpc = "start"
    /\ Len(points) = 0
    /\ rpc' = "novalue"
    /\ UNCHANGED <<input, points, rvalue>>
    /\ UNCHANGED collectorVars
    /\ UNCHANGED exporterVars
    /\ UNCHANGED runVars

\* sort.Slice(timeseries.Points, ...) and the read of the last point
ReduceTake ==
    /\ rpc = "start"
    /\ Len(points) > 0
    /\ points' = SortPoints(points)
    /\ rvalue' = LatestValue(points)
    /\ rpc' = "done"
    /\ UNCHANGED input
    /\ UNCHANGED collectorVars
    /\ UNCHANGED exporterVars
    /\ UNCHANGED runVars

NextReduce ==
    \/ ReduceEmpty
    \/ ReduceTake

SpecReduce == InitReduce /\ [][NextReduce]_vars

\* a series as long as the API returns them: a short head of any points
\* followed by maxInsertion old points
OldPoints == [i \in 1..maxInsertion |-> [ts |-> 1, v |-> 1]]
LongSeries == {h \o OldPoints : h \in SeqUpTo(Point, MaxPts)}

InitSlice == ReducerInit(SeqUpTo(Point, MaxPts) \cup LongSeries)

\* sort.Slice(timeseries.Points, ...) and the read of the last point, for a
\* slice of any length
ReduceSlice ==
    /\ rpc = "start"
    /\ Len(points) > 0
    /\ \E p \in SliceOrders(points) :
           /\ points' = p
           /\ rvalue' = p[Len(p)].v
    /\ rpc' = "done"
    /\ UNCHANGED input
    /\ UNCHANGED collectorVars
    /\ UNCHANGED exporterVars
    /\ UNCHANGED runVars

NextSlice ==
    \/ ReduceEmpty
    \/ ReduceSlice

SpecSlice == InitSlice /\ [][NextSlice]_vars

-----------------------------------------------------------------------------
(* main: the configuration, the partition lists, the registrations *)

Collectors == {"billing", "bucket", "database", "loadbalancer", "redis"}

\* the Config after arg.MustParse: keys is whether both credentials are set,
\* org whether an organization ID is, disabled the --disable-... flags given
Configs ==
    [keys : BOOLEAN, region : {Unset} \cup Parts, zone : {Unset} \cup Parts,
     org : BOOLEAN, disabled : SUBSET Collectors]

\* scw.AllRegions, scw.AllZones
AllRegions == [k \in 1..MaxParts |-> k]
AllZones == [k \in 1..MaxParts |-> k]

\* nothing of a scrape exists yet
NothingRunning ==
    /\ zi = 1
    /\ li = 1
    /\ defers = <<>>
    /\ queried = {}
    /\ wg = [w \in 0..MaxParts |-> 0]
    /\ bwg = [b \in Buckets |-> 0]
    /\ taskPc = [t \in Tasks |-> "none"]
    /\ taskResp = [t \in Tasks |-> NoResp]
    /\ taskIdx = [t \in Tasks |-> 1]
    /\ bucketPc = [b \in Buckets |-> "none"]
    /\ sink = EmptyBag
    /\ panicked = {}
    /\ input = <<>>
    /\ points = <<>>
    /\ rpc = "off"
    /\ rvalue = 0
    /\ expired = FALSE
    /\ run = 1
    /\ built = 1
    /\ firstSink = EmptyBag
    /\ firstResp = [t \in Tasks |-> NoResp]

\* an inventory answer without resources
NoResources(k) == [kind |-> k, res |-> <<>>, more |-> <<>>]

InitMain ==
    /\ cfg \in Configs
    /\ mainPc = "start"
    /\ partitions = [regions |-> <<>>, zones |-> <<>>]
    /\ client = [region |-> Unset]
    /\ registry = <<>>
    /\ ledger = NoLedger
    /\ logged = {}
    /\ family = "none"
    /\ zones = <<>>
    /\ inventory = [k \in Parts |-> NoResources("ok")]
    /\ collectPc = "off"
    /\ errors = <<>>
    /\ NothingRunning

\* an access key or the secret key is missing: os.Exit(1)
MainNoKeys ==
    /\ mainPc = "start"
    /\ ~cfg.keys
    /\ mainPc' = "exit"
    /\ UNCHANGED collectorVars
    /\ UNCHANGED reducerVars
    /\ UNCHANGED runVars
    /\ UNCHANGED <<cfg, partitions, client, registry, ledger, logged>>

\* regions and zones: the one named by the environment, else all known ones
MainPartitions ==
    /\ mainPc = "start"
    /\ cfg.keys
    /\ partitions' =
          [regions |-> IF cfg.region = Unset THEN AllRegions ELSE <<cfg.region>>,
           zones |-> IF cfg.zone = Unset THEN AllZones ELSE <<cfg.zone>>]
    /\ mainPc' = "client"
    /\ UNCHANGED collectorVars
    /\ UNCHANGED reducerVars
    /\ UNCHANGED runVars
    /\ UNCHANGED <<cfg, client, registry, ledger, logged>>

\* scw.NewClient(scw.WithDefaultRegion(regions[0]), ...) succeeds; the
\* CounterVec and the registry are made
MainClient ==
    /\ mainPc = "client"
    /\ client' = [region |-> partitions.regions[1]]
    /\ mainPc' = "billing"
    /\ UNCHANGED collectorVars
    /\ UNCHANGED reducerVars
    /\ UNCHANGED runVars
    /\ UNCHANGED <<cfg, partitions, registry, ledger, logged>>

\* scw.NewClient returns an error: os.Exit(1)
MainClientFail ==
    /\ mainPc = "client"
    /\ mainPc' = "exit"
    /\ UNCHANGED collectorVars
    /\ UNCHANGED reducerVars
    /\ UNCHANGED runVars
    /\ UNCHANGED <<cfg, partitions, client, registry, ledger, logged>>

\* the condition of the if around each r.MustRegister
WantedAlways(c, name) == TRUE
Wanted(c, name) ==
    /\ name \notin c.disabled
    /\ name = "billing" => c.org

\* the list the constructor of a collector is handed
HandedRegions(name, parts) == IF name = "billing" THEN <<>> ELSE parts.regions
Handed(name, parts) ==
    CASE name \in {"bucket", "database"} -> parts.regions
      [] name \in {"loadbalancer", "redis"} -> parts.zones
      [] OTHER -> <<>>

\* the label a constructor touches with Add(0)
CtorLabel(name) == IF name = "billing" THEN "bucket" ELSE name

\* the if statements follow one another in this order
After(name) ==
    CASE name = "billing" -> "bucket"
      [] name = "bucket" -> "database"
      [] name = "database" -> "loadbalancer"
      [] name = "loadbalancer" -> "redis"
      [] OTHER -> "serving"

\* r.MustRegister(collector.New...Collector(logger, errors, client, timeout, list))
MainRegister ==
    /\ mainPc \in Collectors
    /\ Wanted(cfg, mainPc)
    /\ errors' = Register(errors, CtorLabel(mainPc))
    /\ registry' = registry @@ (mainPc :> Handed(mainPc, partitions))
    /\ mainPc' = After(mainPc)
    /\ UNCHANGED reducerVars
    /\ UNCHANGED runVars
    /\ UNCHANGED <<family, zones, inventory, collectPc, zi, li, defers, queried,
                   wg, bwg, taskPc, taskResp, taskIdx, bucketPc, sink, panicked>>
    /\ UNCHANGED <<cfg, partitions, client, ledger, logged>>

\* the collector is disabled (or billing has no organization ID)
MainSkip ==
    /\ mainPc \in Collectors
    /\ ~Wanted(cfg, mainPc)
    /\ mainPc' = After(mainPc)
    /\ UNCHANGED collectorVars
    /\ UNCHANGED reducerVars
    /\ UNCHANGED runVars
    /\ UNCHANGED <<cfg, partitions, client, registry, ledger, logged>>

\* a scrape arrives: the registry calls Collect of a registered collector,
\* which holds the list it was constructed with. The account has no resource.
Gather ==
    /\ mainPc = "serving"
    /\ collectPc = "off"
    /\ \E f \in DOMAIN registry \cap Families :
          /\ family' = f
          /\ zones' = registry[f]
          /\ inventory' \in [Parts -> {NoResources(k) : k \in InventoryKinds(f)}]
    /\ collectPc' = "idle"
    /\ UNCHANGED reducerVars
    /\ UNCHANGED runVars
    /\ UNCHANGED exporterVars
    /\ UNCHANGED <<zi, li, defers, queried, wg, bwg, taskPc, taskResp, taskIdx,
                   bucketPc, errors, sink, panicked>>

\* main, then one scrape of an account without resources: the steps that
\* launch and run goroutines are not enabled in it
NextMain ==
    \/ MainNoKeys
    \/ MainPartitions
    \/ MainClient
    \/ MainClientFail
    \/ MainRegister
    \/ MainSkip
    \/ Gather
    \/ CollectStart
    \/ ListIssue
    \/ LoopEnd
    \/ ListFail
    \/ ListNotImplemented
    \/ ListOk
    \/ LaunchEnd
    \/ DeferredWait
    \/ CollectReturn
    \/ BucketListFail
    \/ BucketListOk
    \/ BucketInfoFail
    \/ BucketInfoOk
    \/ BucketLaunchEnd

SpecMain == InitMain /\ [][NextMain]_vars

-----------------------------------------------------------------------------
(* The billing collector *)

ProjectIds == 1..MaxProjects
Categories == {"compute", "storage"}

\* a line of the report; its project may be one the project list lacks
Consumption == [project : 1..(MaxProjects + 1), category : Categories]

\* the answers of accountClient.ListProjects (all pages)
ProjectAnswers ==
    {[kind |-> "err", projects |-> <<>>]}
    \cup {[kind |-> "ok", projects |-> l] : l \in SeqUpTo(ProjectIds, MaxProjects)}

\* the answers of GET /billing/v2alpha1/consumption
ReportAnswers ==
    {[kind |-> "err", consumptions |-> <<>>]}
    \cup {[kind |-> "ok", consumptions |-> l] :
              l \in SeqUpTo(Consumption, MaxConsumptions)}

InitBilling ==
    /\ family = "billing"
    /\ zones = <<>>
    /\ inventory = [k \in Parts |-> NoResources("ok")]
    /\ collectPc = "idle"
    /\ errors = Register(<<>>, CtorLabel("billing"))
    /\ NothingRunning
    /\ cfg = [keys |-> TRUE, region |-> Unset, zone |-> Unset, org |-> TRUE,
              disabled |-> {}]
    /\ mainPc = "serving"
    /\ partitions = [regions |-> AllRegions, zones |-> AllZones]
    /\ client = [region |-> 1]
    /\ registry = ("billing" :> <<>>)
    /\ ledger \in [projects : ProjectAnswers, report : ReportAnswers]
    /\ logged = {}

\* Collect: the (discarded) context, defer cancel(), ListProjects is issued
BillingStart ==
    /\ family = "billing"
    /\ collectPc = "idle"
    /\ collectPc' = "projects"
    /\ UNCHANGED reducerVars
    /\ UNCHANGED runVars
    /\ UNCHANGED exporterVars
    /\ UNCHANGED <<family, zones, inventory, zi, li, defers, queried, wg, bwg,
                   taskPc, taskResp, taskIdx, bucketPc, errors, sink, panicked>>

\* ListProjects failed: count, warn, return
BillingProjectsFail ==
    /\ collectPc = "projects"
    /\ ledger.projects.kind = "err"
    /\ errors' = CounterAdd(errors, "billing", 1)
    /\ logged' = logged \cup {"warn"}
    /\ collectPc' = "returned"
    /\ UNCHANGED reducerVars
    /\ UNCHANGED runVars
    /\ UNCHANGED <<cfg, mainPc, partitions, client, registry, ledger>>
    /\ UNCHANGED <<family, zones, inventory, zi, li, defers, queried, wg, bwg,
                   taskPc, taskResp, taskIdx, bucketPc, sink, panicked>>

\* the severity of the log entry for an empty project list
NoProjectsLevelWarn == "warn"
NoProjectsLevel == "error"

\* len(response.Projects) == 0: count, log at error level, return
BillingNoProjects ==
    /\ collectPc = "projects"
    /\ ledger.projects.kind = "ok"
    /\ Len(ledger.projects.projects) = 0
    /\ errors' = CounterAdd(errors, "billing", 1)
    /\ logged' = logged \cup {NoProjectsLevel}
    /\ collectPc' = "returned"
    /\ UNCHANGED reducerVars
    /\ UNCHANGED runVars
    /\ UNCHANGED <<cfg, mainPc, partitions, client, registry, ledger>>
    /\ UNCHANGED <<family, zones, inventory, zi, li, defers, queried, wg, bwg,
                   taskPc, taskResp, taskIdx, bucketPc, sink, panicked>>

\* the projects map is filled and the consumption report is requested
BillingProjectsOk ==
    /\ collectPc = "projects"
    /\ ledger.projects.kind = "ok"
    /\ Len(ledger.projects.projects) > 0
    /\ collectPc' = "report"
    /\ UNCHANGED reducerVars
    /\ UNCHANGED runVars
    /\ UNCHANGED exporterVars
    /\ UNCHANGED <<family, zones, inventory, zi, li, defers, queried, wg, bwg,
                   taskPc, taskResp, taskIdx, bucketPc, errors, sink, panicked>>

\* the report call failed: count, warn, return
BillingReportFail ==
    /\ collectPc = "report"
    /\ ledger.report.kind = "err"
    /\ errors' = CounterAdd(errors, "billing", 1)
    /\ logged' = logged \cup {"warn"}
    /\ collectPc' = "returned"
    /\ UNCHANGED reducerVars
    /\ UNCHANGED runVars
    /\ UNCHANGED <<cfg, mainPc, partitions, client, registry, ledger>>
    /\ UNCHANGED <<family, zones, inventory, zi, li, defers, queried, wg, bwg,
                   taskPc, taskResp, taskIdx, bucketPc, sink, panicked>>

\* the report arrived: the range over its consumptions starts
BillingReportOk ==
    /\ collectPc = "report"
    /\ ledger.report.kind = "ok"
    /\ li' = 1
    /\ collectPc' = "consumptions"
    /\ UNCHANGED reducerVars
    /\ UNCHANGED runVars
    /\ UNCHANGED exporterVars
    /\ UNCHANGED <<family, zones, inventory, zi, defers, queried, wg, bwg,
                   taskPc, taskResp, taskIdx, bucketPc, errors, sink, panicked>>

\* projects[consumption.ProjectID]: the name, or "" for a project the map lacks
ProjectName(id) ==
    IF \E k \in 1..Len(ledger.projects.projects) : ledger.projects.projects[k] = id
    THEN <<"project_name", id, 0>>
    ELSE <<"project_name", 0, 0>>

LabelsConsumption(c) ==
    <<<<"project_id", c.project, 0>>, ProjectName(c.project),
      <<"category", c.category, 0>>, <<"operation_path", c.project, c.category>>,
      <<"description", c.project, c.category>>,
      <<"currency_code", c.project, c.category>>>>

\* ch <- MustNewConstMetric(c.Consumptions, ...) for the next consumption
BillingEmit ==
    /\ collectPc = "consumptions"
    /\ li <= Len(ledger.report.consumptions)
    /\ sink' = Send(sink, Obs("scaleway_billing_consumptions", 1,
                               LabelsConsumption(ledger.report.consumptions[li])))
    /\ li' = li + 1
    /\ UNCHANGED reducerVars
    /\ UNCHANGED runVars
    /\ UNCHANGED exporterVars
    /\ UNCHANGED <<family, zones, inventory, collectPc, zi, defers, queried, wg,
                   bwg, taskPc, taskResp, taskIdx, bucketPc, errors, panicked>>

\* ch <- MustNewConstMetric(c.Update, ...): the freshness gauge; Collect returns
BillingUpdate ==
    /\ collectPc = "consumptions"
    /\ li > Len(ledger.report.consumptions)
    /\ sink' = Send(sink, Obs("scaleway_billing_update_timestamp_seconds", 1, <<>>))
    /\ collectPc' = "returned"
    /\ UNCHANGED reducerVars
    /\ UNCHANGED runVars
    /\ UNCHANGED exporterVars
    /\ UNCHANGED <<family, zones, inventory, zi, li, defers, queried, wg, bwg,
                   taskPc, taskResp, taskIdx, bucketPc, errors, panicked>>

NextBilling ==
    \/ BillingStart
    \/ BillingProjectsFail
    \/ BillingNoProjects
    \/ BillingProjectsOk
    \/ BillingReportFail
    \/ BillingReportOk
    \/ BillingEmit
    \/ BillingUpdate

SpecBilling == InitBilling /\ [][NextBilling]_vars

-----------------------------------------------------------------------------
(* Vocabulary of the properties *)

Returned == collectPc = "returned"

Fetcher(p, i) == <<p, i, "metrics">>

\* the resources the inventory answer of partition p lists
ResourcesOf(p) ==
    IF inventory[p].kind = "ok" THEN 1..Len(Listed(family, inventory[p])) ELSE {}

\* the part of the sink that carries the ID (or bucket name) of resource <<p, i>>
SinkOf(p, i) == [o \in ObsOf(p, i) |-> sink[o]]

\* how many 'up' metrics of resource <<p, i>> are in the sink
UpCount(p, i) ==
    BagCardinality([o \in {x \in ObsOf(p, i) : x.desc = UpDesc(family)} |-> sink[o]])

\* the metrics of resource <<p, i>> in the sink that were built from a series
SeriesObsOf(p, i) ==
    {o \in ObsOf(p, i) : family \in {"database", "loadbalancer"} => o.desc # UpDesc(family)}

\* the zoned goroutine of <<p, i>> ran to its end and its liveness metric,
\* where the family has one, is in the sink
Emitted(p, i) ==
    /\ taskPc[Fetcher(p, i)] = "done"
    /\ family \in {"database", "loadbalancer"} => UpCount(p, i) = 1

\* the series of a response that are mapped, resp. mapped and without points
MappedAt(t, k) == DescOf(family, taskResp[t].series[k].name) # NoDesc
EmptyAt(t, k) == Len(taskResp[t].series[k].points) = 0

\* the increments the zoned goroutines have made so far on a label: failed
\* metrics calls and mapped series without points
TaskIncrements(label) ==
    Cardinality({t \in Tasks : taskResp[t].kind = "err" /\ MetricsErrLabel(family) = label})
    + Cardinality({tk \in Tasks \X (1..MaxSeries) :
                     /\ taskResp[tk[1]].kind = "ok"
                     /\ tk[2] < taskIdx[tk[1]]
                     /\ tk[2] <= Len(taskResp[tk[1]].series)
                     /\ MappedAt(tk[1], tk[2])
                     /\ EmptyAt(tk[1], tk[2])
                     /\ EmptySeriesLabel(family) = label})

\* goroutine t makes a step of its series loop, or panics
Stepped(t) == taskIdx'[t] # taskIdx[t] \/ t \in panicked'

\* goroutine t leaves the current series behind and goes on with the next
GoesOn(t) ==
    /\ panicked' = {}
    /\ taskPc'[t] = "series"
    /\ taskIdx'[t] = taskIdx[t] + 1

-----------------------------------------------------------------------------
(* C1: database, load balancer, redis: when the inventory call fails hard  *)
(* for partition A and succeeds for partition B, wherever A and B stand in *)
(* the list, the run still emits the observations of every resource of B   *)
(* and the family's counter is up by exactly one for A's failure (the      *)
(* other increments on the label being those of the goroutines).           *)
C1_FailedPartitionIsolated ==
    (family \in Zoned /\ Returned) =>
        \A a \in DOMAIN inventory, b \in DOMAIN inventory :
            (/\ inventory[a].kind = "err"
             /\ inventory[b].kind = "ok"
             /\ \A c \in DOMAIN inventory : inventory[c].kind = "err" => c = a)
            => /\ \A i \in ResourcesOf(b) : Emitted(b, i)
               /\ Count(family) = 1 + TaskIncrements(family)

(* C2: load balancer, redis: a 501 answer for zone Z skips only Z: every   *)
(* other zone of the list, also one that comes after Z, is still queried   *)
(* in the same run and the observations of its resources are emitted.      *)
C2_NotImplementedSkipsOnlyThatZone ==
    (family \in {"loadbalancer", "redis"} /\ Returned) =>
        \A z \in DOMAIN inventory, y \in DOMAIN inventory :
            (/\ inventory[z].kind = "e501"
             /\ y # z
             /\ \A c \in DOMAIN inventory : c # z => inventory[c].kind = "ok")
            => /\ y \in queried
               /\ \A i \in ResourcesOf(y) : Emitted(y, i)

(* C3: on every path through Collect, the early return of a failed         *)
(* inventory call included, Collect has returned only when every goroutine *)
(* it launched has finished, and nothing is sent to the sink after Collect *)
(* has returned.                                                           *)
C3_JoinBeforeReturn ==
    /\ [](Returned =>
            /\ \A t \in Tasks : taskPc[t] \in {"none", "done"}
            /\ \A b \in Buckets : bucketPc[b] \in {"none", "done"})
    /\ [][Returned => sink' = sink]_vars

\* Collect has returned through the early return of a failed inventory call
\* after the goroutine of an earlier partition was launched and sent a metric
C3_Witness ==
    /\ Returned
    /\ family = "loadbalancer"
    /\ Len(zones) = 2
    /\ inventory[2].kind = "err"
    /\ taskPc[Fetcher(1, 1)] = "done"
    /\ BagCardinality(sink) >= 2

\* goroutine t is about to handle a series that has a descriptor and no point
AtEmptySeries(t) ==
    /\ InLoop(t)
    /\ Len(CurSeries(t).points) = 0
    /\ family \in Zoned => DescOf(family, CurSeries(t).name) # NoDesc
    /\ family = "bucket" => BucketDesc(t[3], CurSeries(t)) # NoDesc

\* goroutine t is about to handle a series (with points) that has no descriptor
AtUnmappedSeries(t) ==
    /\ InLoop(t)
    /\ Len(CurSeries(t).points) > 0
    /\ \/ family \in Zoned /\ DescOf(family, CurSeries(t).name) = NoDesc
       \/ family = "bucket" /\ t[3] = "storage_usage"
                            /\ DescMatrix(CurSeries(t).meta) = NoDesc

(* C4: in every collector, handling a series without points adds one to    *)
(* the family's own error counter, sends nothing, does not crash, and the  *)
(* goroutine goes on with the next series of the response.                 *)
C4_EmptySeriesIsSoftFailure ==
    [][\A t \in Tasks :
          (AtEmptySeries(t) /\ Stepped(t)) =>
              /\ errors' = CounterAdd(errors, family, 1)
              /\ sink' = sink
              /\ GoesOn(t)]_vars

(* C5: handling a series without a descriptor mapping (by name, or by      *)
(* storage class for bucket storage usage) does not raise, sends nothing,  *)
(* leaves the error counter unchanged, and the goroutine goes on with the  *)
(* next series of the response.                                            *)
C5_UnmappedSeriesSkipped ==
    [][\A t \in Tasks :
          (AtUnmappedSeries(t) /\ Stepped(t)) =>
              /\ errors' = errors
              /\ sink' = sink
              /\ GoesOn(t)]_vars

DistinctTs(s) == \A i, j \in 1..Len(s) : i # j => s[i].ts # s[j].ts

(* C6: for a series with at least one point and pairwise distinct          *)
(* timestamps, in any input order, the value taken is the value of the     *)
(* point with the maximum timestamp.                                       *)
C6_LatestPointReported ==
    (rpc = "done" /\ DistinctTs(input)) =>
        \E k \in 1..Len(input) :
            /\ rvalue = input[k].v
            /\ \A j \in 1..Len(input) : input[j].ts <= input[k].ts

\* three points, the latest first in the input, its value not the last one's
C6_Witness ==
    /\ rpc = "done"
    /\ Len(input) = 3
    /\ DistinctTs(input)
    /\ input[1].ts > input[2].ts
    /\ input[2].ts > input[3].ts
    /\ input[1].v # input[3].v
    /\ rvalue = input[1].v

(* C7: database, load balancer: a resource whose goroutine has not sent    *)
(* yet has no 'up' metric; from the moment the metrics call may be issued  *)
(* on, whatever that call answers, it has exactly one; and when Collect    *)
(* has returned every resource of every successful inventory call has      *)
(* exactly one.                                                            *)
C7_UpIndependentOfMetrics ==
    family \in {"database", "loadbalancer"} =>
        /\ \A p \in Parts, i \in 1..MaxRes :
              /\ taskPc[Fetcher(p, i)] \in {"none", "start"} => UpCount(p, i) = 0
              /\ taskPc[Fetcher(p, i)] \in {"call", "fetching", "series", "done"}
                    => UpCount(p, i) = 1
        /\ Returned =>
              \A p \in queried : \A i \in ResourcesOf(p) :
                  taskPc[Fetcher(p, i)] = "done" /\ UpCount(p, i) = 1

\* Collect has returned, the metrics call of a database failed, its 'up' is there
C7_Witness ==
    /\ Returned
    /\ family = "database"
    /\ taskResp[Fetcher(1, 1)].kind = "err"
    /\ UpCount(1, 1) = 1

(* C8: database, load balancer, redis: a failed metrics call adds one to   *)
(* the family's own counter (and changes no other label), ends the         *)
(* goroutine, and no metric built from a series is ever in the sink for    *)
(* that resource.                                                          *)
C8_FailedMetricsCall ==
    /\ [](family \in Zoned =>
            \A p \in Parts, i \in 1..MaxRes :
                taskResp[Fetcher(p, i)].kind = "err" =>
                    /\ taskPc[Fetcher(p, i)] = "done"
                    /\ SeriesObsOf(p, i) = {})
    /\ [][(family \in Zoned) =>
            \A t \in Tasks :
                (taskPc[t] = "fetching" /\ taskResp'[t].kind = "err") =>
                    errors' = CounterAdd(errors, family, 1)]_vars

\* the metrics call of a redis cluster failed and the redis counter is at one
C8_Witness ==
    /\ family = "redis"
    /\ taskResp[Fetcher(1, 1)].kind = "err"
    /\ errors["redis"] = 1
    /\ Returned

\* the metrics the series 1..k of the response of goroutine t call for
RECURSIVE ExpectedSeries(_, _)
ExpectedSeries(t, k) ==
    IF k = 0 THEN EmptyBag
    ELSE LET s == taskResp[t].series[k]
             d == IF family = "bucket" THEN BucketDesc(t[3], s) ELSE DescOf(family, s.name)
             l == IF family = "bucket" THEN LabelsBucket(t) ELSE LabelsSeries(family, t, s)
         IN ExpectedSeries(t, k - 1)
            (+) (IF d # NoDesc /\ Len(s.points) > 0
                 THEN SetToBag({Obs(d, LatestValue(s.points), l)})
                 ELSE EmptyBag)

ExpectedOfTask(t) == ExpectedSeries(t, Len(taskResp[t].series))

\* what resource <<p, i>> should leave in the sink, from its own status and
\* its own metrics answers alone
ExpectedOf(p, i) ==
    CASE family = "bucket" ->
           ExpectedOfTask(<<p, i, "object_count">>)
           (+) ExpectedOfTask(<<p, i, "bytes_sent">>)
           (+) ExpectedOfTask(<<p, i, "storage_usage">>)
      [] family = "redis" -> ExpectedOfTask(Fetcher(p, i))
      [] OTHER ->
           SetToBag({Obs(UpDesc(family), UpValue(family, Status(Fetcher(p, i))),
                         LabelsUp(family, Fetcher(p, i)))})
           (+) ExpectedOfTask(Fetcher(p, i))

(* C9: for two resources R and S of one scrape, what is emitted for S is   *)
(* decided by S's own answers alone, whether R's metrics call succeeds,    *)
(* fails or returns empty or unmapped series; and whatever happens to R's  *)
(* goroutine, S's goroutine is never cut off while it runs.                *)
C9_SiblingIsolation ==
    /\ Returned =>
          \A p \in queried : \A i \in ResourcesOf(p) : SinkOf(p, i) = ExpectedOf(p, i)
    /\ \A r \in panicked : \A s \in Tasks \ {r} : taskPc[s] \in {"none", "done"}

(* C10: every increment a collector makes is on the counter of its own     *)
(* family name: no other label exists or moves.                            *)
C10_OwnFamilyLabelOnly ==
    \A l \in DOMAIN errors : l \in Families /\ (l # family => errors[l] = 0)

-----------------------------------------------------------------------------
\* the increment Collect has made for a failed inventory call
InventoryIncrements(label) ==
    IF /\ collectPc \in {"unwind", "returned"}
       /\ zi <= Len(zones)
       /\ inventory[zones[zi]].kind \in {"err", "infoerr"}
       /\ InventoryErrLabel(family) = label
    THEN 1
    ELSE 0

\* the increments the goroutines of the bucket collector have made: one per
\* failed simple metric, len(DescMatrix) per failed storage-usage call
BucketIncrements(label) ==
    IF MetricsErrLabel(family) = label
    THEN Cardinality({t \in Tasks : taskResp[t].kind = "err" /\ t[3] # "storage_usage"})
         + DescMatrixLen
           * Cardinality({t \in Tasks : taskResp[t].kind = "err" /\ t[3] = "storage_usage"})
    ELSE 0

\* the sum of the increments made so far on a label in this scrape
IncrementsMade(label) ==
    InventoryIncrements(label)
    + (IF family = "bucket" THEN BucketIncrements(label) ELSE TaskIncrements(label))

FailureHandled ==
    \/ /\ collectPc \in {"listing", "listbuckets", "info"}
       /\ collectPc' = "unwind"
       /\ inventory[zones[zi]].kind \in {"err", "infoerr"}
    \/ \E t \in Tasks : taskPc[t] = "fetching" /\ taskResp'[t].kind = "err"
    \/ \E t \in Tasks : InLoop(t) /\ Len(CurSeries(t).points) = 0 /\ Stepped(t)

(* C12: over constructions and scrapes in any order, no step takes a label *)
(* away or lowers its counter, and the counter moves only in a step that   *)
(* handles a failure: a scrape without failure leaves it unchanged.        *)
C12_CounterMonotonic ==
    [][/\ \A l \in DOMAIN errors : l \in DOMAIN errors' /\ errors'[l] >= errors[l]
       /\ errors' # errors => FailureHandled]_vars

\* a collector was constructed again over a counter that had counted failures,
\* and the second scrape counted more
C12_Witness ==
    /\ run = 2
    /\ built = 2
    /\ Returned
    /\ Count(family) >= 2

\* every resource upstream has in partition p, over all pages
UpstreamResources(p) ==
    IF inventory[p].kind = "ok"
    THEN 1..Len(inventory[p].res \o inventory[p].more)
    ELSE {}

(* C13: database, load balancer, redis: when Collect has returned, every   *)
(* partition whose inventory call was answered has had a goroutine run for *)
(* every resource of every page of the upstream list (a failed partition   *)
(* has none): no partition goes on with its first page only.               *)
C13_CompleteInventory ==
    (family \in Zoned /\ Returned) =>
        \A p \in queried : \A i \in UpstreamResources(p) :
            taskPc[Fetcher(p, i)] = "done"

(* C14 as stated: the inventory calls of the partitions run concurrently:  *)
(* while the call of one partition is in flight, the call of a partition   *)
(* that is still to be queried can be issued without waiting for it.       *)
C14_InventoryCallsConcurrent ==
    (family \in Zoned /\ panicked = {} /\ collectPc = "listing" /\ zi < Len(zones))
        => ENABLED ListIssue

(* C14 amended: the inventory calls are issued one at a time in list       *)
(* order: the partitions queried so far are a prefix of the list, and a    *)
(* call is issued only when no other inventory call is in flight and every *)
(* partition queried before was answered and had the goroutines of all its *)
(* resources launched; those goroutines are what runs concurrently.        *)
C14_InventoryCallsSequential ==
    /\ [](family \in Zoned =>
            queried = {zones[k] : k \in 1..Cardinality(queried)})
    /\ [][(family \in Zoned /\ queried' # queried) =>
            /\ collectPc = "loop"
            /\ \A p \in queried :
                  /\ inventory[p].kind = "ok"
                  /\ \A i \in ResourcesOf(p) : taskPc[Fetcher(p, i)] # "none"]_vars

\* the call of the second partition is in flight while the goroutine of a
\* resource of the first partition waits for its metrics
C14_Witness ==
    /\ family = "database"
    /\ collectPc = "listing"
    /\ zi = 2
    /\ taskPc[Fetcher(1, 1)] = "fetching"

\* the steps Collect and its goroutines take on their own; every other step is
\* the return of an upstream call
ProgramStep ==
    \/ CollectStart
    \/ ListIssue
    \/ LoopEnd
    \/ Launch
    \/ LaunchEnd
    \/ DeferredWait
    \/ CollectReturn
    \/ BucketLaunch
    \/ BucketLaunchEnd
    \/ \E b \in Buckets : BucketSpawn(b) \/ BucketJoin(b)
    \/ \E t \in Tasks :
          \/ TaskUp(t)
          \/ TaskCall(t)
          \/ TaskSeriesUnmapped(t)
          \/ TaskSeriesEmpty(t)
          \/ TaskSeriesEmit(t)
          \/ TaskExit(t)
          \/ BucketSeriesPanic(t)
          \/ BucketSeriesEmit(t)
          \/ BucketTaskExit(t)

(* C15: Collect is bounded by the scrape timeout: once the deadline has    *)
(* passed, a Collect that has not returned yet can always go on towards    *)
(* its return by itself; it is never left waiting for an upstream call to  *)
(* return.                                                                 *)
C15_BoundedByTimeout ==
    (expired /\ panicked = {} /\ ~Returned) => ENABLED ProgramStep

\* the series of its response goroutine t has handled so far
Handled(t) == taskIdx[t] - 1

\* what resource <<p, i>> should have in the sink at this moment: its 'up'
\* once sent, and one metric for each handled series that has a descriptor
\* and points
DueOf(p, i) ==
    CASE family = "bucket" ->
           ExpectedSeries(<<p, i, "object_count">>, Handled(<<p, i, "object_count">>))
           (+) ExpectedSeries(<<p, i, "bytes_sent">>, Handled(<<p, i, "bytes_sent">>))
           (+) ExpectedSeries(<<p, i, "storage_usage">>, Handled(<<p, i, "storage_usage">>))
      [] family = "redis" -> ExpectedSeries(Fetcher(p, i), Handled(Fetcher(p, i)))
      [] OTHER ->
           (IF taskPc[Fetcher(p, i)] \in {"none", "start"}
            THEN EmptyBag
            ELSE SetToBag({Obs(UpDesc(family), UpValue(family, Status(Fetcher(p, i))),
                               LabelsUp(family, Fetcher(p, i)))}))
           (+) ExpectedSeries(Fetcher(p, i), Handled(Fetcher(p, i)))

(* C16: no duplicated emission: at every moment of a Collect run, before   *)
(* and after the deadline, a resource has at most one 'up' metric in the   *)
(* sink, and the sink holds for it exactly one metric per series handled   *)
(* so far (none for a series that is skipped): nothing is sent twice.      *)
C16_NoDuplicateEmission ==
    \A p \in Parts, i \in ResIdx :
        /\ (family \in {"database", "loadbalancer"} => UpCount(p, i) <= 1)
        /\ SinkOf(p, i) = DueOf(p, i)

\* the deadline passed during the run and a database instance has its 'up'
\* and the metrics of two series in the sink
C16_Witness ==
    /\ expired
    /\ Returned
    /\ family = "database"
    /\ UpCount(1, 1) = 1
    /\ BagCardinality(SinkOf(1, 1)) = 3

(* C17: idempotence of a scrape: when a Collect run against the upstream   *)
(* answers of the run before it has returned, under every interleaving of  *)
(* the goroutines of both runs, it has sent the same metrics (descriptor,  *)
(* value, label values in order) as the run before, each as many times:    *)
(* nothing of the first run is left in the second.                         *)
C17_ScrapeIdempotent ==
    (run > 1 /\ Returned) => sink = firstSink

\* the second run of a database collector has returned; the goroutines of two
\* regions have each sent 'up' and the metric of a series
C17_Witness ==
    /\ run = 2
    /\ Returned
    /\ family = "database"
    /\ Len(taskResp[Fetcher(1, 1)].series) >= 1
    /\ Len(taskResp[Fetcher(2, 1)].series) >= 1
    /\ BagCardinality(sink) >= 4

(* C18: every metric in the sink carries as many label values as its       *)
(* descriptor declares variable labels, each read from the field the label *)
(* at its position names (database up: id, name, region, engine, type;     *)
(* database node metrics: id, name, node; load balancer: id, name, zone,   *)
(* type; redis: id, name, node; bucket: name, region, public).             *)
C18_LabelSchema ==
    \A o \in BagToSet(sink) :
        /\ o.desc \in Describe(family)
        /\ Len(o.labels) = Len(Schema(o.desc))
        /\ \A k \in 1..Len(o.labels) : o.labels[k][1] = Schema(o.desc)[k]

\* a database scrape has sent an 'up' metric (five labels) and a node metric
\* (three labels)
C18_Witness ==
    /\ Returned
    /\ \E o \in BagToSet(sink) : o.desc = "scaleway_database_up" /\ Len(o.labels) = 5
    /\ \E o \in BagToSet(sink) :
          o.desc = "scaleway_database_cpu_usage_percent" /\ Len(o.labels) = 3

\* the value of the 'up' metrics resource <<p, i>> has in the sink
UpValuesOf(p, i) == {o.value : o \in {x \in ObsOf(p, i) : x.desc = UpDesc(family)}}

\* the goroutine of resource <<p, i>> has sent its 'up' metric
UpSent(p, i) == taskPc[Fetcher(p, i)] \in {"call", "fetching", "series", "done"}

C20_DatabaseThreeTier ==
    family = "database" =>
        \A p \in Parts, i \in ResIdx :
            UpSent(p, i) =>
                /\ Status(Fetcher(p, i)) = "ready" => UpValuesOf(p, i) = {2}
                /\ Status(Fetcher(p, i)) \in {"autohealing", "provisioning", "deleting"}
                      => UpValuesOf(p, i) = {1}
                /\ Status(Fetcher(p, i)) \in {"error", "unknown", "locked"}
                      => UpValuesOf(p, i) = {0}
                /\ Status(Fetcher(p, i)) # "undeclared"
                      => Status(Fetcher(p, i)) \in UpCases(family)

(* C20 amended: database: the 'up' metric is 1.0 when the status is ready  *)
(* or backuping, 0.5 when it is autohealing, and 0.0 for every other       *)
(* status, declared or not, which all take the default branch.             *)
C20_DatabaseLiveness ==
    family = "database" =>
        \A p \in Parts, i \in ResIdx :
            UpSent(p, i) =>
                /\ UpValuesOf(p, i) =
                     {CASE Status(Fetcher(p, i)) \in {"ready", "backuping"} -> 2
                        [] Status(Fetcher(p, i)) = "autohealing" -> 1
                        [] OTHER -> 0}
                /\ UpValuesOf(p, i) = {0} <=> Status(Fetcher(p, i)) \notin UpCases(family)

\* a database that is being backed up has been reported as 1.0
C20_Witness ==
    /\ family = "database"
    /\ Returned
    /\ inventory[1].kind = "ok"
    /\ inventory[1].res = <<"backuping">>
    /\ UpValuesOf(1, 1) = {2}

(* C21: when several points of a series share the greatest timestamp, the  *)
(* value taken is the value of the one that comes last in the input, in    *)
(* every run over that input.                                              *)
C21_LastOfNewestWins ==
    rpc = "done" =>
        \A k \in Newest(input) :
            (\A j \in Newest(input) : j <= k) => rvalue = input[k].v

\* Collect has taken the answer of the inventory call of the current zone
AnswerTaken == collectPc = "listing" /\ collectPc' # "listing"

(* C22: load balancer, redis: the step of Collect that takes a 501 answer  *)
(* of the inventory call of a zone leaves the error counter of every label *)
(* as it was.                                                              *)
C22_NotImplementedNotCounted ==
    [][(/\ family \in {"loadbalancer", "redis"}
        /\ AnswerTaken
        /\ inventory[zones[zi]].kind = "e501")
       => errors' = errors]_vars

\* the second zone answered 501 after the first was listed; Collect has
\* returned and no label has counted an error
C22_Witness ==
    /\ family \in {"loadbalancer", "redis"}
    /\ Returned
    /\ Len(zones) = 2
    /\ zi = 2
    /\ inventory[zones[zi]].kind = "e501"
    /\ inventory[zones[1]].kind = "ok"
    /\ \A l \in DOMAIN errors : errors[l] = 0

\* the step of goroutine t that calls MustNewConstMetric for the series it
\* is at: the zoned collectors have passed the name switch and the empty
\* check, the bucket collector has read the last point
BuildsFor(t) ==
    /\ InLoop(t)
    /\ Stepped(t)
    /\ Len(CurSeries(t).points) > 0
    /\ family # "bucket" => DescOf(family, CurSeries(t).name) # NoDesc

\* the descriptor that call is handed
DescBuilt(t) ==
    IF family = "bucket"
    THEN BucketDesc(t[3], CurSeries(t))
    ELSE DescOf(family, CurSeries(t).name)

(* C23: every observation sent during Collect carries one of the           *)
(* descriptors Describe announces, and no observation is built with a      *)
(* descriptor outside that set, the nil descriptor included.               *)
C23_DescribedDescriptorsOnly ==
    /\ [](\A o \in BagToSet(sink) : o.desc \in Describe(family))
    /\ [][\A t \in Tasks : BuildsFor(t) => DescBuilt(t) \in Describe(family)]_vars

C25_Registration ==
    /\ mainPc = "serving" =>
          \A f \in Families : f \notin cfg.disabled => f \in DOMAIN registry
    /\ \A f \in cfg.disabled : f \notin DOMAIN registry
    /\ collectPc # "off" => family \notin cfg.disabled
    /\ "billing" \in DOMAIN registry => ("billing" \notin cfg.disabled /\ cfg.org)

\* with the database collector disabled and an organization ID set, main
\* serves with billing registered, and a scrape of the redis collector returned
C25_Witness ==
    /\ mainPc = "serving"
    /\ cfg.disabled = {"database"}
    /\ DOMAIN registry = {"billing", "bucket", "loadbalancer", "redis"}
    /\ family = "redis"
    /\ Returned

\* the elements of a list
Range(l) == {l[k] : k \in DOMAIN l}

(* C26: the list a registered region-scoped collector (bucket, database)   *)
(* was constructed with is the one region SCALEWAY_REGION names, or all    *)
(* known regions when it is unset; likewise the zone-scoped collectors     *)
(* (load balancer, redis) with SCALEWAY_ZONE; and a scrape issues          *)
(* inventory calls only for partitions of the list of its collector.       *)
C26_PartitionRestriction ==
    /\ \A f \in DOMAIN registry \cap {"bucket", "database"} :
          registry[f] = IF cfg.region = Unset THEN AllRegions ELSE <<cfg.region>>
    /\ \A f \in DOMAIN registry \cap {"loadbalancer", "redis"} :
          registry[f] = IF cfg.zone = Unset THEN AllZones ELSE <<cfg.zone>>
    /\ collectPc # "off" =>
          /\ zones = registry[family]
          /\ queried \subseteq Range(zones)

\* SCALEWAY_REGION names the second region and SCALEWAY_ZONE is unset: a
\* database scrape queried that region only, a load balancer is handed all zones
C26_Witness ==
    /\ cfg.region = 2
    /\ cfg.zone = Unset
    /\ family = "database"
    /\ Returned
    /\ queried = {2}
    /\ "loadbalancer" \in DOMAIN registry
    /\ Len(registry["loadbalancer"]) = MaxParts

(* C27: bucket collector: a Collect run whose upstream calls all succeed   *)
(* has listed the buckets of every region of the configured region list    *)
(* and emitted the metrics of each of them, not only those of the client's *)
(* default region.                                                         *)
C27_BucketEveryRegion ==
    (/\ family = "bucket"
     /\ Returned
     /\ \A p \in DOMAIN inventory : inventory[p].kind = "ok")
    => \A k \in 1..Len(zones) :
           /\ zones[k] \in queried
           /\ \A i \in ResourcesOf(zones[k]), m \in BucketMetrics :
                  taskPc[<<zones[k], i, m>>] = "done"

\* the project list came back without error and empty
NoProjects == ledger.projects.kind = "ok" /\ Len(ledger.projects.projects) = 0

(* C28: billing collector: when the project list resolves to zero cost     *)
(* centers, the scrape that has returned has sent no consumption           *)
(* observation, has incremented the billing error counter once, has logged *)
(* at error level, and the process is still serving.                       *)
C28_NoCostCenters ==
    (family = "billing" /\ Returned /\ NoProjects) =>
        /\ \A o \in BagToSet(sink) : o.desc # "scaleway_billing_consumptions"
        /\ Count("billing") = 1
        /\ "error" \in logged
        /\ panicked = {}
        /\ mainPc = "serving"

\* the scrape returned on an empty project list while the report upstream
\* holds two consumptions
C28_Witness ==
    /\ family = "billing"
    /\ Returned
    /\ NoProjects
    /\ ledger.report.kind = "ok"
    /\ Len(ledger.report.consumptions) = 2
    /\ sink = EmptyBag

(* C29: when every goroutine is scheduled, every upstream call returns and *)
(* the registry keeps receiving, a Collect call that was made eventually   *)
(* returns, whatever the partitions and resources are.                     *)
C29_CollectTerminates == (collectPc = "idle") ~> Returned

\* partition zones[k] is the first of the list whose inventory call returns
\* an error (a 501 answer included)
FirstError(k) ==
    /\ inventory[zones[k]].kind \in {"err", "e501"}
    /\ \A j \in 1..(k - 1) : inventory[zones[j]].kind = "ok"

(* C30: database, load balancer, redis: the partitions are scanned in list *)
(* order and the scan stops at the first partition whose inventory call    *)
(* returns an error: no inventory call is issued, no goroutine launched    *)
(* and no observation sent for any partition after it, and when Collect    *)
(* has returned the resources of every partition before it have been       *)
(* processed to their end and emitted.                                     *)
C30_ScanStopsAtFirstError ==
    family \in Zoned =>
        /\ queried = {zones[j] : j \in 1..Cardinality(queried)}
        /\ \A k \in 1..Len(zones) : FirstError(k) =>
              /\ \A j \in (k + 1)..Len(zones) :
                    /\ zones[j] \notin queried
                    /\ \A i \in ResIdx :
                          /\ taskPc[Fetcher(zones[j], i)] = "none"
                          /\ ObsOf(zones[j], i) = {}
              /\ Returned =>
                    \A j \in 1..(k - 1) :
                        \A i \in ResourcesOf(zones[j]) : Emitted(zones[j], i)

\* the first partition failed and Collect returned without a call for the
\* second, which holds a resource
C30_Witness ==
    /\ family \in Zoned
    /\ Returned
    /\ Len(zones) = 2
    /\ FirstError(1)
    /\ inventory[zones[2]].kind = "ok"
    /\ ResourcesOf(zones[2]) # {}
    /\ queried = {zones[1]}

\* the three metric goroutines of bucket b
MetricTasks(b) == {<<b[1], b[2], m>> : m \in BucketMetrics}

(* C31: bucket collector: the goroutine of a bucket has signalled its end   *)
(* to Collect only when the three metric goroutines of that bucket have     *)
(* finished, and Collect has returned only when the goroutine of every      *)
(* listed bucket and all three metric goroutines of each have finished.     *)
C31_NestedJoin ==
    family = "bucket" =>
        /\ \A b \in Buckets :
              bucketPc[b] = "done" => \A t \in MetricTasks(b) : taskPc[t] = "done"
        /\ Returned =>
              \A i \in ResourcesOf(zones[1]) :
                  /\ bucketPc[<<zones[1], i>>] = "done"
                  /\ \A t \in MetricTasks(<<zones[1], i>>) : taskPc[t] = "done"

\* of two buckets the first has joined its three goroutines and signalled
\* Collect, which waits; the three goroutines of the second are all running
C31_Witness ==
    /\ family = "bucket"
    /\ collectPc = "unwind"
    /\ Len(inventory[zones[1]].res) = 2
    /\ bucketPc[<<zones[1], 1>>] = "done"
    /\ \A t \in MetricTasks(<<zones[1], 1>>) : taskPc[t] = "done"
    /\ \A t \in MetricTasks(<<zones[1], 2>>) : taskPc[t] \in {"fetching", "series"}
    /\ wg[0] = 1

(* C32: bucket collector: when the bucket list call or the buckets-info    *)
(* call that follows it fails, Collect, from the failure to its return,    *)
(* has added exactly one to the bucket error counter and to no other, has  *)
(* launched no goroutine and has sent nothing.                             *)
C32_BucketInventoryFailure ==
    (/\ family = "bucket"
     /\ collectPc \in {"unwind", "returned"}
     /\ inventory[zones[1]].kind \in {"err", "infoerr"})
    => /\ Count("bucket") = 1
       /\ \A l \in DOMAIN errors : l # "bucket" => errors[l] = 0
       /\ \A b \in Buckets : bucketPc[b] = "none"
       /\ \A t \in Tasks : taskPc[t] = "none"
       /\ wg[0] = 0
       /\ sink = EmptyBag

\* the bucket list arrived, the buckets-info call failed, Collect returned
C32_Witness ==
    /\ family = "bucket"
    /\ Returned
    /\ inventory[zones[1]].kind = "infoerr"
    /\ queried = {zones[1]}
    /\ Count("bucket") = 1

\* the metrics calls for the metrics ms that have failed so far
FailedFetches(ms) ==
    Cardinality({t \in Tasks : t[3] \in ms /\ taskResp[t].kind = "err"})

(* C33: bucket collector: at every moment the bucket error counter is one   *)
(* for a failed inventory call, plus one for each failed fetch of           *)
(* object_count or bytes_sent, plus two (the storage-class descriptors      *)
(* STANDARD and GLACIER) for each failed fetch of storage_usage; a single   *)
(* bucket whose three fetches all failed has added exactly four.            *)
C33_BucketErrorAccounting ==
    family = "bucket" =>
        /\ Count("bucket") =
              InventoryIncrements("bucket")
              + FailedFetches({"object_count", "bytes_sent"})
              + 2 * FailedFetches({"storage_usage"})
        /\ (/\ Len(inventory[zones[1]].res) = 1
            /\ \A t \in MetricTasks(<<zones[1], 1>>) : taskResp[t].kind = "err")
           => Count("bucket") = 4

\* the three fetches of each of two buckets failed and Collect returned: the
\* counter stands at eight
C33_Witness ==
    /\ family = "bucket"
    /\ Returned
    /\ Len(inventory[zones[1]].res) = 2
    /\ \A i \in 1..2 : \A t \in MetricTasks(<<zones[1], i>>) : taskResp[t].kind = "err"
    /\ Count("bucket") = 8

\* the observations a step hands to the channel, and the goroutine that took
\* the step
NewObs == BagToSet(sink' (-) sink)
StepOf(t) == taskPc'[t] # taskPc[t] \/ taskIdx'[t] # taskIdx[t]

\* the labels of o that are read from a resource are all read from <<p, i>>
OfResource(o, p, i) ==
    /\ o.labels[1][1] \in {"id", "name"}
    /\ \A k \in 1..Len(o.labels) :
          o.labels[k][1] \in {"id", "name", "engine", "type", "public"}
              => o.labels[k][2] = p /\ o.labels[k][3] = i

(* C34: in every step of every interleaving, an observation handed to the   *)
(* channel by the goroutine of a resource carries the ID and the name (and  *)
(* every other resource label) of that very resource, never those of the    *)
(* resource of another goroutine.                                           *)
C34_LabelBinding ==
    [][\A t \in Tasks :
          StepOf(t) => \A o \in NewObs : OfResource(o, t[1], t[2])]_vars

\* the goroutines of two resources are both between their first observation
\* and their return, each observation in the channel carrying the labels of
\* the resource it was measured for
C34_Witness ==
    /\ family \in Zoned
    /\ \E t, u \in Tasks :
          /\ t # u
          /\ <<t[1], t[2]>> # <<u[1], u[2]>>
          /\ InLoop(t) /\ taskIdx[t] > 1
          /\ InLoop(u) /\ taskIdx[u] > 1
          /\ ObsOf(t[1], t[2]) # {}
          /\ ObsOf(u[1], u[2]) # {}
          /\ \A o \in ObsOf(t[1], t[2]) : OfResource(o, t[1], t[2])
          /\ \A o \in ObsOf(u[1], u[2]) : OfResource(o, u[1], u[2])

\* the process is gone: os.Exit in main, or a panic in a goroutine
Terminated == mainPc = "exit" \/ panicked # {}

(* C35: when a key is missing, main never gets past the credential check:   *)
(* it exits with no collector constructed or registered, no error series    *)
(* created and no scrape ever served. And the process terminates from       *)
(* startup only: it is never gone while a scrape has been started.          *)
C35_StartupCredentialCheck ==
    /\ ~cfg.keys =>
          /\ mainPc \in {"start", "exit"}
          /\ registry = <<>>
          /\ errors = <<>>
          /\ collectPc = "off"
    /\ Terminated => mainPc = "exit" /\ collectPc = "off"

(* C36: constructing a collector creates the error series of its own       *)
(* family name with value 0 when it is missing and leaves every existing    *)
(* value as it is; so every constructed collector has its series from then  *)
(* on, and no series other than those of the constructed collectors ever    *)
(* comes to exist: every label incremented later was initialised this way.  *)
C36_ErrorSeriesInitialised ==
    /\ [][(mainPc \in Collectors /\ mainPc \in DOMAIN registry') =>
             /\ mainPc \in DOMAIN errors'
             /\ \A l \in DOMAIN errors : errors'[l] = errors[l]
             /\ \A l \in DOMAIN errors' \ DOMAIN errors : l = mainPc /\ errors'[l] = 0]_vars
    /\ [](\A f \in DOMAIN registry : f \in DOMAIN errors)
    /\ [](\A l \in DOMAIN errors : l \in DOMAIN registry)

\* the goroutines the counter of a WaitGroup stands for: those its Add has
\* counted (the go statement may still be to come) and that have not yet run
\* their Done
CountedIn(w) ==
    IF family = "bucket"
    THEN {b \in Buckets : w = 0 /\ bucketPc[b] \notin {"none", "done"}}
    ELSE {t \in Tasks : /\ t[3] = "metrics"
                         /\ WgOf(family, t[1]) = w
                         /\ taskPc[t] \notin {"none", "done"}}
CountedInBucket(b) ==
    IF bucketPc[b] \in {"spawn", "wait"}
    THEN {t \in MetricTasks(b) : taskPc[t] # "done"}
    ELSE {}

\* the goroutines of a WaitGroup that a go statement has started and that
\* have not returned
RunningIn(w) ==
    IF family = "bucket"
    THEN {b \in Buckets : w = 0 /\ bucketPc[b] \notin {"none", "added", "done"}}
    ELSE {t \in CountedIn(w) : taskPc[t] # "added"}
RunningInBucket(b) == {t \in MetricTasks(b) : taskPc[t] \notin {"none", "done"}}

(* C37: every WaitGroup counter is incremented before the go statement of   *)
(* the goroutine it counts and decremented once by each goroutine as it     *)
(* returns, after a failed metrics call as after the last series: no        *)
(* counter is ever negative, each equals the number of goroutines counted   *)
(* and not yet returned, every started goroutine was counted before, and a  *)
(* Wait returns only when no goroutine of its WaitGroup is running.         *)
C37_WaitGroupDiscipline ==
    /\ [](\A w \in DOMAIN wg :
             /\ wg[w] >= 0
             /\ wg[w] = Cardinality(CountedIn(w))
             /\ RunningIn(w) \subseteq CountedIn(w))
    /\ [](\A b \in Buckets :
             /\ bwg[b] >= 0
             /\ bwg[b] = Cardinality(CountedInBucket(b))
             /\ RunningInBucket(b) \subseteq CountedInBucket(b))
    /\ [][\A t \in Tasks :
             (taskPc[t] \in {"none", "added"} /\ taskPc'[t] \notin {"none", "added"})
                 => \/ family \in Zoned /\ wg[WgOf(family, t[1])] >= 1
                                        /\ taskPc[t] = "added"
                    \/ family = "bucket" /\ bwg[<<t[1], t[2]>>] >= 1]_vars
    /\ [][(defers # <<>> /\ defers' = Tail(defers)) => RunningIn(Head(defers)) = {}]_vars
    /\ [][\A b \in Buckets :
             (bucketPc[b] = "wait" /\ bucketPc'[b] = "done") => RunningInBucket(b) = {}]_vars
    /\ [](Returned => \A w \in DOMAIN wg : RunningIn(w) = {})

\* database: Collect has counted the goroutine of the second region and has
\* not yet started it, the goroutine of the first region is running, and the
\* counter stands at two
C37_Witness ==
    /\ family = "database"
    /\ Len(zones) = 2
    /\ collectPc = "launch"
    /\ taskPc[Fetcher(zones[1], 1)] \in {"fetching", "series"}
    /\ taskPc[Fetcher(zones[2], 1)] = "added"
    /\ wg[0] = 2

====
